---- MODULE Spec2Model ----
(***************************************************************************)
(* Model of the scheduled lead scraper (netlify/functions/scrape-leads.mjs) *)
(* and of the three durable slots it reads and rewrites:                   *)
(*   store 'leads'  key 'all-leads'   the accumulated qualified leads      *)
(*   store 'state'  key 'rotation'    the (category, city) cursor          *)
(*   store 'state'  key 'history'     the bounded run log                  *)
(* One invocation of the handler is a process that walks through the       *)
(* handler's awaits in program order; every blob read or write may throw.  *)
(* The command-line scraper (scrape-leads.js: geocodeLocation,             *)
(* searchOpenStreetMap, checkBusinessesForTracking, main) is a second      *)
(* process, `cli`, which shares no state with the scheduled function.      *)
(***************************************************************************)
EXTENDS Integers, Sequences, FiniteSets, TLC

VARIABLES
    leadsSlot,      \* blob 'all-leads': <<>> = never written, <<v>> = holds v
    historySlot,    \* blob 'history'
    rotationSlot,   \* blob 'rotation'
    clock,          \* number of invocations started; the source of timestamps
    blobFaults,     \* number of blob calls that have thrown so far
    run,            \* run[p]: position and locals of invocation process p
    adv,            \* harness for the rotation advance as a pure function
    cover,          \* harness for the combinations consecutive invocations select
    cli,            \* the run of the command-line scraper
    probe,          \* harness for one tracking check as a pure function
    csv,            \* the CSV export under test: records, text and decoded rows
    gate            \* a request to a read endpoint (get-leads, get-status) and its answer

\* The durable slots and the invocations of the scheduled function
store == <<leadsSlot, historySlot, rotationSlot, clock, blobFaults, run>>

\* The harnesses and the command-line run, which the scheduled function
\* never touches
harness == <<adv, cover, cli, probe, csv, gate>>

vars == <<store, harness>>

----------------------------------------------------------------------------
(* Bounds of the model *)

MaxRuns == 2        \* invocations explored from an initial store
MaxElements == 2    \* elements in one Overpass response
MaxFaults == 1      \* blob reads or writes that throw during an exploration
MaxIndex == 101     \* largest persisted rotation index a selection starts from

----------------------------------------------------------------------------
(* Fixed tables of the program *)

CATEGORIES ==
    << "dentist", "lawyer", "doctor", "accountant", "therapist",
       "chiropractor", "insurance", "real_estate", "financial",
       "clinic", "pharmacy", "veterinary", "optometrist", "psychologist" >>

\* The name of every entry of CITIES, in table order (lat/lon only feed the query).
CITIES ==
    << "Los Angeles", "New York", "Chicago", "Houston", "Phoenix",
       "Philadelphia", "San Antonio", "San Diego", "Dallas", "San Jose",
       "Austin", "Jacksonville", "San Francisco", "Columbus", "Fort Worth",
       "Indianapolis", "Charlotte", "Seattle", "Denver", "Washington DC",
       "Boston", "Nashville", "Detroit", "Portland", "Las Vegas",
       "Memphis", "Louisville", "Baltimore", "Milwaukee", "Albuquerque",
       "Tucson", "Fresno", "Sacramento", "Atlanta", "Miami",
       "Oakland", "Minneapolis", "Cleveland", "Raleigh", "Tampa",
       "Orlando", "Pittsburgh", "Cincinnati", "St Louis", "Salt Lake City",
       "Roseville", "Irvine", "Santa Barbara", "Pasadena", "Bakersfield" >>

SearchLimit == 30       \* searchOpenStreetMap(category, city, 25000, 30)
HistoryLimit == 100     \* history.slice(0, 100)

gaPatterns ==
    << "google-analytics.com", "googletagmanager.com", "gtag(",
       "ga(", "_ga", "analytics.js", "gtm.js", "ua-", "g-" >>

fbPatterns ==
    << "connect.facebook.net", "fbq(", "facebook pixel",
       "fb-pixel", "fbevents.js", "pixel/event" >>

----------------------------------------------------------------------------
(* JavaScript string and value helpers *)

UpperLetters == "ABCDEFGHIJKLMNOPQRSTUVWXYZ"
LowerLetters == "abcdefghijklmnopqrstuvwxyz"

\* Table of String.prototype.toLowerCase on single letters.
LowerTable ==
    [c \in {SubSeq(UpperLetters, i, i) : i \in 1..26} |->
        LET i == CHOOSE j \in 1..26 : SubSeq(UpperLetters, j, j) = c
        IN  SubSeq(LowerLetters, i, i)]

RECURSIVE LowerChars(_)
LowerChars(s) ==
    IF Len(s) = 0 THEN s
    ELSE LET c == SubSeq(s, 1, 1)
         IN  (IF c \in DOMAIN LowerTable THEN LowerTable[c] ELSE c)
                \o LowerChars(SubSeq(s, 2, Len(s)))

\* The lower-cased city names, computed once
LowerCityNames == [c \in {CITIES[i] : i \in 1..Len(CITIES)} |-> LowerChars(c)]

\* String.prototype.toLowerCase
ToLowerCase(s) ==
    IF s \in DOMAIN LowerCityNames THEN LowerCityNames[s] ELSE LowerChars(s)

\* String.prototype.includes
Includes(s, p) ==
    \E i \in 1..(Len(s) - Len(p) + 1) : SubSeq(s, i, i + Len(p) - 1) = p

\* a || b on strings: the empty (or absent) string is falsy
OrElse(a, b) == IF a # "" THEN a ELSE b

\* Array.prototype.some over a pattern table
SomePattern(patterns, html) ==
    \E i \in 1..Len(patterns) : Includes(html, patterns[i])

\* Array.prototype.slice(0, n)
SliceTo(s, n) == SubSeq(s, 1, IF Len(s) < n THEN Len(s) ELSE n)

\* A blob slot: <<>> when the key was never written, <<v>> when it holds v.
\* store.get(...) of a missing key yields null, and `null || d` is d.
SlotOr(slot, d) == IF slot = <<>> THEN d ELSE slot[1]

----------------------------------------------------------------------------
(* The rotation state *)

\* A default rotation state that counts a run before any has happened
DefaultStateFromOne == [cityIndex |-> 0, categoryIndex |-> 0, totalRuns |-> 1]

DefaultState == [cityIndex |-> 0, categoryIndex |-> 0, totalRuns |-> 0]

\* An advance that resets categoryIndex and forgets to move to the next city
AdvanceWithoutCarry(s) ==
    [cityIndex |-> s.cityIndex,
     categoryIndex |-> (s.categoryIndex + 1) % Len(CATEGORIES),
     totalRuns |-> s.totalRuns + 1]

\* state.categoryIndex++; if (>= CATEGORIES.length) { = 0; state.cityIndex++ }
\* state.totalRuns++
Advance(s) ==
    LET c == s.categoryIndex + 1
    IN  IF c >= Len(CATEGORIES)
        THEN [cityIndex |-> s.cityIndex + 1, categoryIndex |-> 0,
              totalRuns |-> s.totalRuns + 1]
        ELSE [cityIndex |-> s.cityIndex, categoryIndex |-> c,
              totalRuns |-> s.totalRuns + 1]

\* A selection that indexes the table with the persisted index itself: past
\* the end of the table the element is undefined
CurrentCityUnwrapped(s) ==
    IF s.cityIndex < Len(CITIES) THEN CITIES[s.cityIndex + 1] ELSE "undefined"

\* CITIES[state.cityIndex % CITIES.length].name
CurrentCity(s) == CITIES[(s.cityIndex % Len(CITIES)) + 1]

\* CATEGORIES[state.categoryIndex % CATEGORIES.length]
CurrentCategory(s) == CATEGORIES[(s.categoryIndex % Len(CATEGORIES)) + 1]

----------------------------------------------------------------------------
(* searchOpenStreetMap: one Overpass response turned into business records *)

\* An element of the response: its id and the tags the conversion reads
\* ("" = tag absent).  Pass-through tags (phone, email, addr:street, ...) and
\* the coordinates take part in no decision and are left out.
Element(id, name, nameEn, website, contactWebsite, url, addrCity) ==
    [id |-> id, name |-> name, nameEn |-> nameEn, website |-> website,
     contactWebsite |-> contactWebsite, url |-> url, addrCity |-> addrCity]

Elements ==
    { Element(1, "Acme", "", "acme.com", "", "", ""),
      Element(2, "ACME", "", "", "acme.org", "", "Burbank"),
      Element(3, "", "Bolt", "", "", "bolt.io", ""),
      Element(4, "Acme", "", "", "", "", ""),
      Element(5, "", "", "nameless.com", "", "", "") }

\* businesses = data.elements.map(el => ({...}))
ToBusiness(el, category, cityName, now) ==
    [name |-> OrElse(el.name, OrElse(el.nameEn, "Unknown Business")),
     category |-> category,
     website |-> OrElse(el.website, OrElse(el.contactWebsite, el.url)),
     city |-> OrElse(el.addrCity, cityName),
     osmId |-> el.id,
     scrapedAt |-> now,
     scrapedCity |-> cityName]

\* The identity key inside one response: b.name.toLowerCase()
IntraKey(b) == ToLowerCase(b.name)

\* businesses.filter(b => { ... seen ... }), with the set `seen` threaded through
RECURSIVE FilterDedup(_, _)
FilterDedup(bs, seen) ==
    IF bs = <<>> THEN <<>>
    ELSE LET b == Head(bs)
         IN  IF b.name = "Unknown Business" THEN FilterDedup(Tail(bs), seen)
             ELSE IF b.website = "" THEN FilterDedup(Tail(bs), seen)
             ELSE IF IntraKey(b) \in seen THEN FilterDedup(Tail(bs), seen)
             ELSE <<b>> \o FilterDedup(Tail(bs), seen \cup {IntraKey(b)})

\* The value searchOpenStreetMap returns for a 200 response with these elements
SearchOpenStreetMap(elements, category, cityName, limit, now) ==
    IF Len(elements) = 0 THEN <<>>
    ELSE SliceTo(
           FilterDedup([i \in 1..Len(elements) |->
                          ToBusiness(elements[i], category, cityName, now)], {}),
           limit)

----------------------------------------------------------------------------
(* checkWebsiteForTracking *)

\* What a website answers: a response with a status and a body, or no response
\* at all (connection error, timeout, malformed URL): kind = "error".
Page(kind, status, body) == [kind |-> kind, status |-> status, body |-> body]

Pages ==
    { Page("ok", 200, "<script>GTAG('js')</script>"),
      Page("ok", 200, "<script>fbq('init')</script>"),
      Page("ok", 200, "<p>Hello</p>"),
      Page("ok", 404, "gtag( fbq( not found"),
      Page("error", 0, "") }

\* What the websites serve while the scheduled function is explored: every
\* outcome of a check but one of the two ways to qualify.
SitePages == Pages \ { Page("ok", 200, "<script>fbq('init')</script>") }

NoTracking == [hasGA |-> FALSE, hasFB |-> FALSE]

\* What a call yields when it throws (or its promise rejects) instead of
\* returning
Threw(message) == [threw |-> message]
IsThrow(result) == "threw" \in DOMAIN result

\* The check without its try/catch: a failed fetch rejects the check
CheckWebsiteForTrackingUncaught(url, page) ==
    IF url = "" THEN NoTracking
    ELSE IF page.kind = "error" THEN Threw(page.body)
    ELSE IF page.status # 200 THEN NoTracking
    ELSE LET html == ToLowerCase(page.body)
         IN  [hasGA |-> SomePattern(gaPatterns, html),
              hasFB |-> SomePattern(fbPatterns, html)]

\* if (!url) return; try { fetch; status; patterns } catch { return }
CheckWebsiteForTracking(url, page) ==
    IF url = "" THEN NoTracking
    ELSE IF page.kind = "error" THEN NoTracking
    ELSE IF page.status # 200 THEN NoTracking
    ELSE LET html == ToLowerCase(page.body)
         IN  [hasGA |-> SomePattern(gaPatterns, html),
              hasFB |-> SomePattern(fbPatterns, html)]

\* { ...biz, hasGA: tracking.hasGA, hasFB: tracking.hasFB }
WithTracking(b, t) ==
    [name |-> b.name, category |-> b.category, website |-> b.website,
     city |-> b.city, osmId |-> b.osmId, scrapedAt |-> b.scrapedAt,
     scrapedCity |-> b.scrapedCity, hasGA |-> t.hasGA, hasFB |-> t.hasFB]

\* The fetch outcomes a check is probed with: those of Pages, a page for
\* every pattern, further statuses and further ways of getting no response
ProbePages ==
    Pages
    \cup {Page("ok", 200, "<html>" \o gaPatterns[i] \o "</html>") :
            i \in 1..Len(gaPatterns)}
    \cup {Page("ok", 200, "<html>" \o fbPatterns[i] \o "</html>") :
            i \in 1..Len(fbPatterns)}
    \cup {Page("ok", 301, ""), Page("ok", 500, "ua-12345 fbevents.js"),
          Page("error", 0, "Request timeout"), Page("error", 0, "Invalid URL"),
          Page("error", 0, "getaddrinfo ENOTFOUND")}

\* The url arguments a check is probed with
ProbeUrls ==
    {"", "acme.com", "http://acme.com", "https://acme.com/about",
     "not a url", "http://"}

\* The loop is inside the handler's try: a check that threw would end it
DetectionThrows(businesses, pages) ==
    \E i \in 1..Len(businesses) :
        IsThrow(CheckWebsiteForTracking(businesses[i].website, pages[i]))

\* The loop over businesses: pages[i] is what the website of businesses[i] serves
QualifiedLeads(businesses, pages) ==
    LET checked == [i \in 1..Len(businesses) |->
                      WithTracking(businesses[i],
                          CheckWebsiteForTracking(businesses[i].website, pages[i]))]
    IN  SelectSeq(checked, LAMBDA l : l.hasGA \/ l.hasFB)

----------------------------------------------------------------------------
(* Dedupe by name + city, and the history entry *)

\* `${l.name.toLowerCase()}-${l.scrapedCity.toLowerCase()}`
CrossRunKey(l) == ToLowerCase(l.name) \o "-" \o ToLowerCase(l.scrapedCity)

ExistingKeys(allLeads) == {CrossRunKey(allLeads[i]) : i \in 1..Len(allLeads)}

\* The dedupe with the name compared as written (toLowerCase forgotten)
NewLeadsCaseSensitive(allLeads, qualifiedLeads) ==
    LET existingKeys ==
            {allLeads[i].name \o "-" \o ToLowerCase(allLeads[i].scrapedCity) :
                i \in 1..Len(allLeads)}
    IN  SelectSeq(qualifiedLeads,
                  LAMBDA l : (l.name \o "-" \o ToLowerCase(l.scrapedCity))
                                \notin existingKeys)

\* qualifiedLeads.filter(l => !existingKeys.has(key))
NewLeads(allLeads, qualifiedLeads) ==
    LET existingKeys == ExistingKeys(allLeads)
    IN  SelectSeq(qualifiedLeads, LAMBDA l : CrossRunKey(l) \notin existingKeys)

HistoryEntry(now, cityName, category, businesses, newLeads, allLeads) ==
    [timestamp |-> now, city |-> cityName, category |-> category,
     businessesFound |-> Len(businesses), leadsFound |-> Len(newLeads),
     totalLeads |-> Len(allLeads)]

\* history.unshift(entry); history = history.slice(0, 100)
PushHistory(history, entry) == SliceTo(<<entry>> \o history, HistoryLimit)

----------------------------------------------------------------------------
(* One invocation of the scheduled handler *)

Procs == {"r1", "r2"}

BoundedSeq(S, n) == UNION {[1..k -> S] : k \in 0..n}

\* What the Overpass request can come back with
SearchResponses ==
    {[kind |-> k, elements |-> <<>>] : k \in {"non200", "timeout", "badjson"}}
    \cup {[kind |-> "ok", elements |-> es] : es \in BoundedSeq(Elements, MaxElements)}

NoResponse ==
    [kind |-> "none", status |-> 0, success |-> FALSE, error |-> "",
     city |-> "", category |-> "", newLeads |-> 0, totalLeads |-> 0]

\* The locals of an invocation.  pre (the three slots when the invocation
\* started), loaded (the rotation state as loaded), faults (the blob calls
\* that threw) and wrote (the slots this invocation has written) only record
\* what happened; the handler does not read them.
RunIdle ==
    [pc |-> "idle", now |-> 0,
     pre |-> [leads |-> <<>>, history |-> <<>>, rotation |-> <<>>],
     loaded |-> DefaultState, state |-> DefaultState,
     city |-> "", category |-> "",
     businesses |-> <<>>, qualifiedLeads |-> <<>>,
     allLeads |-> <<>>, newLeads |-> <<>>, history |-> <<>>,
     error |-> "", faults |-> {}, wrote |-> {}, response |-> NoResponse,
     logged |-> 0]

\* A blob call (get or setJSON) returns, or throws while the budget of thrown
\* calls lasts.
BlobCall(ok) ==
    /\ ok \/ blobFaults < MaxFaults
    /\ blobFaults' = IF ok THEN blobFaults ELSE blobFaults + 1

\* A start of the invocation that stores the advanced rotation state before
\* the search
LoadRotationAdvancingFirst(p, readOk) ==
    /\ run[p].pc \in {"idle", "done"}
    /\ BlobCall(readOk)
    /\ clock < MaxRuns
    /\ LET state == IF readOk THEN SlotOr(rotationSlot, DefaultState)
                    ELSE DefaultState
       IN  /\ run' = [run EXCEPT ![p] =
                        [RunIdle EXCEPT
                           !.pc = "search", !.now = clock + 1,
                           !.pre = [leads |-> leadsSlot, history |-> historySlot,
                                    rotation |-> rotationSlot],
                           !.loaded = state, !.state = state,
                        !.logged = state.totalRuns + 1,
                           !.city = CurrentCity(state),
                           !.category = CurrentCategory(state),
                           !.faults = IF readOk THEN {} ELSE {"readRotation"}]]
           /\ rotationSlot' = <<Advance(state)>>
    /\ clock' = clock + 1
    /\ UNCHANGED <<leadsSlot, historySlot, harness>>

\* stateStore.get('rotation') with its catch; city and category selection
LoadRotation(p, readOk) ==
    /\ run[p].pc \in {"idle", "done"}
    /\ BlobCall(readOk)
    /\ clock < MaxRuns
    /\ LET state == IF readOk THEN SlotOr(rotationSlot, DefaultState)
                    ELSE DefaultState
       IN  run' = [run EXCEPT ![p] =
                     [RunIdle EXCEPT
                        !.pc = "search", !.now = clock + 1,
                        !.pre = [leads |-> leadsSlot, history |-> historySlot,
                                 rotation |-> rotationSlot],
                        !.loaded = state, !.state = state,
                        !.logged = state.totalRuns + 1,
                        !.city = CurrentCity(state),
                        !.category = CurrentCategory(state),
                        !.faults = IF readOk THEN {} ELSE {"readRotation"}]]
    /\ clock' = clock + 1
    /\ UNCHANGED <<leadsSlot, historySlot, rotationSlot, harness>>

\* Step 1: searchOpenStreetMap; a non-200 status, a timeout and an unparsable
\* body all throw into the handler's catch
Search(p, resp) ==
    /\ run[p].pc = "search"
    /\ run' = [run EXCEPT ![p] =
                 IF resp.kind # "ok"
                 THEN [@ EXCEPT !.pc = "catch", !.error = resp.kind]
                 ELSE [@ EXCEPT !.pc = "detect",
                         !.businesses =
                            SearchOpenStreetMap(resp.elements, run[p].category,
                                                run[p].city, SearchLimit, run[p].now)]]
    /\ UNCHANGED <<leadsSlot, historySlot, rotationSlot, clock, blobFaults, harness>>

\* Step 2: the tracking check of every business
Detect(p, pages) ==
    /\ run[p].pc = "detect"
    /\ run' = [run EXCEPT ![p] =
                 IF DetectionThrows(run[p].businesses, pages)
                 THEN [@ EXCEPT !.pc = "catch", !.error = "detect"]
                 ELSE [@ EXCEPT !.pc = "readLeads",
                         !.qualifiedLeads =
                            QualifiedLeads(run[p].businesses, pages)]]
    /\ UNCHANGED <<leadsSlot, historySlot, rotationSlot, clock, blobFaults, harness>>

\* Step 3: store.get('all-leads') with its catch, the dedupe and the append
ReadLeads(p, readOk) ==
    /\ run[p].pc = "readLeads"
    /\ BlobCall(readOk)
    /\ LET existing == IF readOk THEN SlotOr(leadsSlot, <<>>) ELSE <<>>
           newLeads == NewLeads(existing, run[p].qualifiedLeads)
       IN  run' = [run EXCEPT ![p] =
                     [@ EXCEPT !.pc = "writeLeads",
                        !.newLeads = newLeads,
                        !.allLeads = existing \o newLeads,
                        !.faults = IF readOk THEN @ ELSE @ \cup {"readLeads"}]]
    /\ UNCHANGED <<leadsSlot, historySlot, rotationSlot, clock, harness>>

\* A write that merges the run's new leads into what the slot holds at the
\* time of the write
WriteLeadsMerging(p, writeOk) ==
    /\ run[p].pc = "writeLeads"
    /\ BlobCall(writeOk)
    /\ IF writeOk
       THEN /\ leadsSlot' = <<SlotOr(leadsSlot, <<>>)
                                \o NewLeads(SlotOr(leadsSlot, <<>>), run[p].newLeads)>>
            /\ run' = [run EXCEPT ![p] =
                         [@ EXCEPT !.pc = "readHistory",
                            !.wrote = @ \cup {"leads"}]]
       ELSE /\ leadsSlot' = leadsSlot
            /\ run' = [run EXCEPT ![p] =
                         [@ EXCEPT !.pc = "catch", !.error = "writeLeads",
                            !.faults = @ \cup {"writeLeads"}]]
    /\ UNCHANGED <<historySlot, rotationSlot, clock, harness>>

\* store.setJSON('all-leads', allLeads)
WriteLeads(p, writeOk) ==
    /\ run[p].pc = "writeLeads"
    /\ BlobCall(writeOk)
    /\ IF writeOk
       THEN /\ leadsSlot' = <<run[p].allLeads>>
            /\ run' = [run EXCEPT ![p] =
                         [@ EXCEPT !.pc = "readHistory",
                            !.wrote = @ \cup {"leads"}]]
       ELSE /\ leadsSlot' = leadsSlot
            /\ run' = [run EXCEPT ![p] =
                         [@ EXCEPT !.pc = "catch", !.error = "writeLeads",
                            !.faults = @ \cup {"writeLeads"}]]
    /\ UNCHANGED <<historySlot, rotationSlot, clock, harness>>

\* Step 4: stateStore.get('history') with its catch, unshift and slice
ReadHistory(p, readOk) ==
    /\ run[p].pc = "readHistory"
    /\ BlobCall(readOk)
    /\ LET existing == IF readOk THEN SlotOr(historySlot, <<>>) ELSE <<>>
           entry == HistoryEntry(run[p].now, run[p].city, run[p].category,
                                 run[p].businesses, run[p].newLeads,
                                 run[p].allLeads)
       IN  run' = [run EXCEPT ![p] =
                     [@ EXCEPT !.pc = "writeHistory",
                        !.history = PushHistory(existing, entry),
                        !.faults = IF readOk THEN @ ELSE @ \cup {"readHistory"}]]
    /\ UNCHANGED <<leadsSlot, historySlot, rotationSlot, clock, harness>>

\* stateStore.setJSON('history', history)
WriteHistory(p, writeOk) ==
    /\ run[p].pc = "writeHistory"
    /\ BlobCall(writeOk)
    /\ IF writeOk
       THEN /\ historySlot' = <<run[p].history>>
            /\ run' = [run EXCEPT ![p] =
                         [@ EXCEPT !.pc = "advance",
                            !.wrote = @ \cup {"history"}]]
       ELSE /\ historySlot' = historySlot
            /\ run' = [run EXCEPT ![p] =
                         [@ EXCEPT !.pc = "catch", !.error = "writeHistory",
                            !.faults = @ \cup {"writeHistory"}]]
    /\ UNCHANGED <<leadsSlot, rotationSlot, clock, harness>>

\* Step 5: advance the rotation (in place), write it, answer success
AdvanceRotation(p, writeOk) ==
    /\ run[p].pc = "advance"
    /\ BlobCall(writeOk)
    /\ LET state == Advance(run[p].state)
       IN  IF writeOk
           THEN /\ rotationSlot' = <<state>>
                /\ run' = [run EXCEPT ![p] =
                             [@ EXCEPT !.pc = "done", !.state = state,
                                !.wrote = @ \cup {"rotation"},
                                !.response =
                                   [kind |-> "ok", status |-> 200,
                                    success |-> TRUE, error |-> "",
                                    city |-> run[p].city, category |-> run[p].category,
                                    newLeads |-> Len(run[p].newLeads),
                                    totalLeads |-> Len(run[p].allLeads)]]]
           ELSE /\ rotationSlot' = rotationSlot
                /\ run' = [run EXCEPT ![p] =
                             [@ EXCEPT !.pc = "catch", !.state = state,
                                !.error = "writeRotation",
                                !.faults = @ \cup {"writeRotation"}]]
    /\ UNCHANGED <<leadsSlot, historySlot, clock, harness>>

\* A catch branch that also logs the failed run in the history slot
CatchRecordingHistory(p, writeOk) ==
    /\ run[p].pc = "catch"
    /\ BlobCall(writeOk)
    /\ LET state == Advance(run[p].state)
           entry == HistoryEntry(run[p].now, run[p].city, run[p].category,
                                 <<>>, <<>>, <<>>)
       IN  /\ historySlot' = <<PushHistory(SlotOr(historySlot, <<>>), entry)>>
           /\ rotationSlot' = IF writeOk THEN <<state>> ELSE rotationSlot
           /\ run' = [run EXCEPT ![p] =
                        [@ EXCEPT !.pc = "done", !.state = state,
                           !.response =
                              [NoResponse EXCEPT
                                 !.kind = IF writeOk THEN "failed" ELSE "rejected",
                                 !.error = run[p].error]]]
    /\ UNCHANGED <<leadsSlot, clock, harness>>

\* A catch branch that reports the combination the rotation has moved on to
CatchReportingNext(p, writeOk) ==
    /\ run[p].pc = "catch"
    /\ BlobCall(writeOk)
    /\ LET state == Advance(run[p].state)
       IN  IF writeOk
           THEN /\ rotationSlot' = <<state>>
                /\ run' = [run EXCEPT ![p] =
                             [@ EXCEPT !.pc = "done", !.state = state,
                                !.wrote = @ \cup {"rotation"},
                                !.response =
                                   [kind |-> "failed", status |-> 500,
                                    success |-> FALSE, error |-> run[p].error,
                                    city |-> CurrentCity(state),
                                    category |-> CurrentCategory(state),
                                    newLeads |-> 0, totalLeads |-> 0]]]
           ELSE /\ rotationSlot' = rotationSlot
                /\ run' = [run EXCEPT ![p] =
                             [@ EXCEPT !.pc = "done", !.state = state,
                                !.faults = @ \cup {"writeRotationInCatch"},
                                !.response =
                                   [NoResponse EXCEPT !.kind = "rejected"]]]
    /\ UNCHANGED <<leadsSlot, historySlot, clock, harness>>

\* The catch branch: advance the rotation (in place, on whatever `state` holds
\* by now), write it, answer 500.  If this write throws too, the handler's
\* promise rejects.
Catch(p, writeOk) ==
    /\ run[p].pc = "catch"
    /\ BlobCall(writeOk)
    /\ LET state == Advance(run[p].state)
       IN  IF writeOk
           THEN /\ rotationSlot' = <<state>>
                /\ run' = [run EXCEPT ![p] =
                             [@ EXCEPT !.pc = "done", !.state = state,
                                !.wrote = @ \cup {"rotation"},
                                !.response =
                                   [kind |-> "failed", status |-> 500,
                                    success |-> FALSE, error |-> run[p].error,
                                    city |-> run[p].city, category |-> run[p].category,
                                    newLeads |-> 0, totalLeads |-> 0]]]
           ELSE /\ rotationSlot' = rotationSlot
                /\ run' = [run EXCEPT ![p] =
                             [@ EXCEPT !.pc = "done", !.state = state,
                                !.faults = @ \cup {"writeRotationInCatch"},
                                !.response =
                                   [NoResponse EXCEPT !.kind = "rejected"]]]
    /\ UNCHANGED <<leadsSlot, historySlot, clock, harness>>

\* Every step of invocation p
Step(p) ==
    \/ \E readOk \in BOOLEAN : LoadRotation(p, readOk)
    \/ \E resp \in SearchResponses : Search(p, resp)
    \/ \E pages \in [1..Len(run[p].businesses) -> SitePages] : Detect(p, pages)
    \/ \E readOk \in BOOLEAN : ReadLeads(p, readOk)
    \/ \E writeOk \in BOOLEAN : WriteLeads(p, writeOk)
    \/ \E readOk \in BOOLEAN : ReadHistory(p, readOk)
    \/ \E writeOk \in BOOLEAN : WriteHistory(p, writeOk)
    \/ \E writeOk \in BOOLEAN : AdvanceRotation(p, writeOk)
    \/ \E writeOk \in BOOLEAN : Catch(p, writeOk)

----------------------------------------------------------------------------
(* The command-line scraper: geocodeLocation *)

\* US_CITIES in the order of the object literal (the order Object.entries
\* walks); lat and lon as written in the source.
US_CITIES ==
    <<
      [city |-> "los angeles", lat |-> "34.0522", lon |-> "-118.2437", name |-> "Los Angeles, CA"],
      [city |-> "new york", lat |-> "40.7128", lon |-> "-74.0060", name |-> "New York, NY"],
      [city |-> "chicago", lat |-> "41.8781", lon |-> "-87.6298", name |-> "Chicago, IL"],
      [city |-> "houston", lat |-> "29.7604", lon |-> "-95.3698", name |-> "Houston, TX"],
      [city |-> "phoenix", lat |-> "33.4484", lon |-> "-112.0740", name |-> "Phoenix, AZ"],
      [city |-> "philadelphia", lat |-> "39.9526", lon |-> "-75.1652", name |-> "Philadelphia, PA"],
      [city |-> "san antonio", lat |-> "29.4241", lon |-> "-98.4936", name |-> "San Antonio, TX"],
      [city |-> "san diego", lat |-> "32.7157", lon |-> "-117.1611", name |-> "San Diego, CA"],
      [city |-> "dallas", lat |-> "32.7767", lon |-> "-96.7970", name |-> "Dallas, TX"],
      [city |-> "san jose", lat |-> "37.3382", lon |-> "-121.8863", name |-> "San Jose, CA"],
      [city |-> "austin", lat |-> "30.2672", lon |-> "-97.7431", name |-> "Austin, TX"],
      [city |-> "jacksonville", lat |-> "30.3322", lon |-> "-81.6557", name |-> "Jacksonville, FL"],
      [city |-> "san francisco", lat |-> "37.7749", lon |-> "-122.4194", name |-> "San Francisco, CA"],
      [city |-> "columbus", lat |-> "39.9612", lon |-> "-82.9988", name |-> "Columbus, OH"],
      [city |-> "fort worth", lat |-> "32.7555", lon |-> "-97.3308", name |-> "Fort Worth, TX"],
      [city |-> "indianapolis", lat |-> "39.7684", lon |-> "-86.1581", name |-> "Indianapolis, IN"],
      [city |-> "charlotte", lat |-> "35.2271", lon |-> "-80.8431", name |-> "Charlotte, NC"],
      [city |-> "seattle", lat |-> "47.6062", lon |-> "-122.3321", name |-> "Seattle, WA"],
      [city |-> "denver", lat |-> "39.7392", lon |-> "-104.9903", name |-> "Denver, CO"],
      [city |-> "washington", lat |-> "38.9072", lon |-> "-77.0369", name |-> "Washington, DC"],
      [city |-> "boston", lat |-> "42.3601", lon |-> "-71.0589", name |-> "Boston, MA"],
      [city |-> "nashville", lat |-> "36.1627", lon |-> "-86.7816", name |-> "Nashville, TN"],
      [city |-> "detroit", lat |-> "42.3314", lon |-> "-83.0458", name |-> "Detroit, MI"],
      [city |-> "portland", lat |-> "45.5152", lon |-> "-122.6784", name |-> "Portland, OR"],
      [city |-> "las vegas", lat |-> "36.1699", lon |-> "-115.1398", name |-> "Las Vegas, NV"],
      [city |-> "memphis", lat |-> "35.1495", lon |-> "-90.0490", name |-> "Memphis, TN"],
      [city |-> "louisville", lat |-> "38.2527", lon |-> "-85.7585", name |-> "Louisville, KY"],
      [city |-> "baltimore", lat |-> "39.2904", lon |-> "-76.6122", name |-> "Baltimore, MD"],
      [city |-> "milwaukee", lat |-> "43.0389", lon |-> "-87.9065", name |-> "Milwaukee, WI"],
      [city |-> "albuquerque", lat |-> "35.0844", lon |-> "-106.6504", name |-> "Albuquerque, NM"],
      [city |-> "tucson", lat |-> "32.2226", lon |-> "-110.9747", name |-> "Tucson, AZ"],
      [city |-> "fresno", lat |-> "36.7378", lon |-> "-119.7871", name |-> "Fresno, CA"],
      [city |-> "sacramento", lat |-> "38.5816", lon |-> "-121.4944", name |-> "Sacramento, CA"],
      [city |-> "atlanta", lat |-> "33.7490", lon |-> "-84.3880", name |-> "Atlanta, GA"],
      [city |-> "miami", lat |-> "25.7617", lon |-> "-80.1918", name |-> "Miami, FL"],
      [city |-> "oakland", lat |-> "37.8044", lon |-> "-122.2712", name |-> "Oakland, CA"],
      [city |-> "minneapolis", lat |-> "44.9778", lon |-> "-93.2650", name |-> "Minneapolis, MN"],
      [city |-> "cleveland", lat |-> "41.4993", lon |-> "-81.6944", name |-> "Cleveland, OH"],
      [city |-> "raleigh", lat |-> "35.7796", lon |-> "-78.6382", name |-> "Raleigh, NC"],
      [city |-> "tampa", lat |-> "27.9506", lon |-> "-82.4572", name |-> "Tampa, FL"],
      [city |-> "orlando", lat |-> "28.5383", lon |-> "-81.3792", name |-> "Orlando, FL"],
      [city |-> "pittsburgh", lat |-> "40.4406", lon |-> "-79.9959", name |-> "Pittsburgh, PA"],
      [city |-> "cincinnati", lat |-> "39.1031", lon |-> "-84.5120", name |-> "Cincinnati, OH"],
      [city |-> "st louis", lat |-> "38.6270", lon |-> "-90.1994", name |-> "St. Louis, MO"],
      [city |-> "salt lake city", lat |-> "40.7608", lon |-> "-111.8910", name |-> "Salt Lake City, UT"],
      [city |-> "roseville", lat |-> "38.7521", lon |-> "-121.2880", name |-> "Roseville, CA"],
      [city |-> "folsom", lat |-> "38.6780", lon |-> "-121.1761", name |-> "Folsom, CA"],
      [city |-> "elk grove", lat |-> "38.4088", lon |-> "-121.3716", name |-> "Elk Grove, CA"],
      [city |-> "rocklin", lat |-> "38.7907", lon |-> "-121.2358", name |-> "Rocklin, CA"],
      [city |-> "citrus heights", lat |-> "38.7071", lon |-> "-121.2811", name |-> "Citrus Heights, CA"],
      [city |-> "rancho cordova", lat |-> "38.5891", lon |-> "-121.3028", name |-> "Rancho Cordova, CA"],
      [city |-> "davis", lat |-> "38.5449", lon |-> "-121.7405", name |-> "Davis, CA"],
      [city |-> "woodland", lat |-> "38.6785", lon |-> "-121.7733", name |-> "Woodland, CA"],
      [city |-> "vacaville", lat |-> "38.3566", lon |-> "-121.9877", name |-> "Vacaville, CA"],
      [city |-> "fairfield", lat |-> "38.2494", lon |-> "-122.0400", name |-> "Fairfield, CA"],
      [city |-> "vallejo", lat |-> "38.1041", lon |-> "-122.2566", name |-> "Vallejo, CA"],
      [city |-> "napa", lat |-> "38.2975", lon |-> "-122.2869", name |-> "Napa, CA"],
      [city |-> "santa rosa", lat |-> "38.4404", lon |-> "-122.7141", name |-> "Santa Rosa, CA"],
      [city |-> "stockton", lat |-> "37.9577", lon |-> "-121.2908", name |-> "Stockton, CA"],
      [city |-> "modesto", lat |-> "37.6391", lon |-> "-120.9969", name |-> "Modesto, CA"],
      [city |-> "berkeley", lat |-> "37.8716", lon |-> "-122.2727", name |-> "Berkeley, CA"],
      [city |-> "fremont", lat |-> "37.5485", lon |-> "-121.9886", name |-> "Fremont, CA"],
      [city |-> "hayward", lat |-> "37.6688", lon |-> "-122.0808", name |-> "Hayward, CA"],
      [city |-> "sunnyvale", lat |-> "37.3688", lon |-> "-122.0363", name |-> "Sunnyvale, CA"],
      [city |-> "santa clara", lat |-> "37.3541", lon |-> "-121.9552", name |-> "Santa Clara, CA"],
      [city |-> "mountain view", lat |-> "37.3861", lon |-> "-122.0839", name |-> "Mountain View, CA"],
      [city |-> "palo alto", lat |-> "37.4419", lon |-> "-122.1430", name |-> "Palo Alto, CA"],
      [city |-> "redwood city", lat |-> "37.4852", lon |-> "-122.2364", name |-> "Redwood City, CA"],
      [city |-> "san mateo", lat |-> "37.5630", lon |-> "-122.3255", name |-> "San Mateo, CA"],
      [city |-> "daly city", lat |-> "37.6879", lon |-> "-122.4702", name |-> "Daly City, CA"],
      [city |-> "concord", lat |-> "37.9780", lon |-> "-122.0311", name |-> "Concord, CA"],
      [city |-> "walnut creek", lat |-> "37.9101", lon |-> "-122.0652", name |-> "Walnut Creek, CA"],
      [city |-> "richmond", lat |-> "37.9358", lon |-> "-122.3478", name |-> "Richmond, CA"],
      [city |-> "antioch", lat |-> "38.0049", lon |-> "-121.8058", name |-> "Antioch, CA"],
      [city |-> "pleasanton", lat |-> "37.6624", lon |-> "-121.8747", name |-> "Pleasanton, CA"],
      [city |-> "livermore", lat |-> "37.6819", lon |-> "-121.7680", name |-> "Livermore, CA"],
      [city |-> "long beach", lat |-> "33.7701", lon |-> "-118.1937", name |-> "Long Beach, CA"],
      [city |-> "anaheim", lat |-> "33.8366", lon |-> "-117.9143", name |-> "Anaheim, CA"],
      [city |-> "santa ana", lat |-> "33.7455", lon |-> "-117.8677", name |-> "Santa Ana, CA"],
      [city |-> "irvine", lat |-> "33.6846", lon |-> "-117.8265", name |-> "Irvine, CA"],
      [city |-> "huntington beach", lat |-> "33.6595", lon |-> "-117.9988", name |-> "Huntington Beach, CA"],
      [city |-> "glendale", lat |-> "34.1425", lon |-> "-118.2551", name |-> "Glendale, CA"],
      [city |-> "pasadena", lat |-> "34.1478", lon |-> "-118.1445", name |-> "Pasadena, CA"],
      [city |-> "torrance", lat |-> "33.8358", lon |-> "-118.3406", name |-> "Torrance, CA"],
      [city |-> "pomona", lat |-> "34.0551", lon |-> "-117.7500", name |-> "Pomona, CA"],
      [city |-> "ontario", lat |-> "34.0633", lon |-> "-117.6509", name |-> "Ontario, CA"],
      [city |-> "rancho cucamonga", lat |-> "34.1064", lon |-> "-117.5931", name |-> "Rancho Cucamonga, CA"],
      [city |-> "riverside", lat |-> "33.9533", lon |-> "-117.3962", name |-> "Riverside, CA"],
      [city |-> "corona", lat |-> "33.8753", lon |-> "-117.5664", name |-> "Corona, CA"],
      [city |-> "moreno valley", lat |-> "33.9425", lon |-> "-117.2297", name |-> "Moreno Valley, CA"],
      [city |-> "fontana", lat |-> "34.0922", lon |-> "-117.4350", name |-> "Fontana, CA"],
      [city |-> "san bernardino", lat |-> "34.1083", lon |-> "-117.2898", name |-> "San Bernardino, CA"],
      [city |-> "santa monica", lat |-> "34.0195", lon |-> "-118.4912", name |-> "Santa Monica, CA"],
      [city |-> "burbank", lat |-> "34.1808", lon |-> "-118.3090", name |-> "Burbank, CA"],
      [city |-> "costa mesa", lat |-> "33.6411", lon |-> "-117.9187", name |-> "Costa Mesa, CA"],
      [city |-> "newport beach", lat |-> "33.6189", lon |-> "-117.9289", name |-> "Newport Beach, CA"],
      [city |-> "fullerton", lat |-> "33.8703", lon |-> "-117.9242", name |-> "Fullerton, CA"],
      [city |-> "orange", lat |-> "33.7879", lon |-> "-117.8531", name |-> "Orange, CA"],
      [city |-> "oceanside", lat |-> "33.1959", lon |-> "-117.3795", name |-> "Oceanside, CA"],
      [city |-> "carlsbad", lat |-> "33.1581", lon |-> "-117.3506", name |-> "Carlsbad, CA"],
      [city |-> "escondido", lat |-> "33.1192", lon |-> "-117.0864", name |-> "Escondido, CA"],
      [city |-> "temecula", lat |-> "33.4936", lon |-> "-117.1484", name |-> "Temecula, CA"],
      [city |-> "murrieta", lat |-> "33.5539", lon |-> "-117.2139", name |-> "Murrieta, CA"],
      [city |-> "santa barbara", lat |-> "34.4208", lon |-> "-119.6982", name |-> "Santa Barbara, CA"],
      [city |-> "ventura", lat |-> "34.2805", lon |-> "-119.2945", name |-> "Ventura, CA"],
      [city |-> "oxnard", lat |-> "34.1975", lon |-> "-119.1771", name |-> "Oxnard, CA"],
      [city |-> "thousand oaks", lat |-> "34.1706", lon |-> "-118.8376", name |-> "Thousand Oaks, CA"],
      [city |-> "simi valley", lat |-> "34.2694", lon |-> "-118.7815", name |-> "Simi Valley, CA"],
      [city |-> "bakersfield", lat |-> "35.3733", lon |-> "-119.0187", name |-> "Bakersfield, CA"],
      [city |-> "visalia", lat |-> "36.3302", lon |-> "-119.2921", name |-> "Visalia, CA"],
      [city |-> "san luis obispo", lat |-> "35.2828", lon |-> "-120.6596", name |-> "San Luis Obispo, CA"],
      [city |-> "santa cruz", lat |-> "36.9741", lon |-> "-122.0308", name |-> "Santa Cruz, CA"],
      [city |-> "monterey", lat |-> "36.6002", lon |-> "-121.8947", name |-> "Monterey, CA"],
      [city |-> "salinas", lat |-> "36.6777", lon |-> "-121.6555", name |-> "Salinas, CA"]
    >>

\* The table entries whose key the lower-cased input contains
LocalHits(locationLower) ==
    {k \in 1..Len(US_CITIES) : Includes(locationLower, US_CITIES[k].city)}

\* The last table key the input contains, instead of the first
LocalLookupLast(locationLower) ==
    LET hits == LocalHits(locationLower)
    IN  IF hits = {} THEN 0 ELSE CHOOSE k \in hits : \A j \in hits : j <= k

\* for (const [city, coords] of Object.entries(US_CITIES))
\*   if (locationLower.includes(city)) return ...
\* The loop returns at the first entry it meets that matches: the index of
\* that entry, 0 when the loop falls through.
LocalLookup(locationLower) ==
    LET hits == LocalHits(locationLower)
    IN  IF hits = {} THEN 0 ELSE CHOOSE k \in hits : \A j \in hits : k <= j

\* What the Nominatim request can come back with: no response (connection
\* error, timeout), a status, and for 200 the parsed candidate list
NominatimResponses ==
    { [kind |-> "error", status |-> 0, data |-> <<>>],
      [kind |-> "ok", status |-> 403, data |-> <<>>],
      [kind |-> "ok", status |-> 429, data |-> <<>>],
      [kind |-> "ok", status |-> 500, data |-> <<>>],
      [kind |-> "ok", status |-> 200, data |-> <<>>],
      [kind |-> "ok", status |-> 200,
       data |-> <<[lat |-> "39.5261", lon |-> "-119.8127",
                   display_name |-> "Reno, Washoe County, Nevada"]>>] }

\* What geocodeLocation resolves to, or throws, and the requests it issued.
\* Coordinates are carried as their decimal text.
GeocodeLocation(location, response) ==
    LET hit == LocalLookup(ToLowerCase(location))
    IN  IF hit # 0
        THEN [lat |-> US_CITIES[hit].lat, lon |-> US_CITIES[hit].lon,
              displayName |-> US_CITIES[hit].name, requests |-> <<>>]
        ELSE LET issued == <<"nominatim.openstreetmap.org">>
             IN  IF response.kind = "error"
                 THEN [threw |-> "Request timeout", requests |-> issued]
                 ELSE IF response.status \in {403, 429}
                 THEN [threw |-> "Nominatim rate limited", requests |-> issued]
                 ELSE IF response.status # 200
                 THEN [threw |-> "Geocoding failed", requests |-> issued]
                 ELSE IF Len(response.data) = 0
                 THEN [threw |-> "Could not find location", requests |-> issued]
                 ELSE [lat |-> response.data[1].lat, lon |-> response.data[1].lon,
                       displayName |-> response.data[1].display_name,
                       requests |-> issued]

----------------------------------------------------------------------------
(* The command-line scraper: search, selection and tracking checks *)

\* businesses = data.elements.map(el => ({...})): no scrapedCity, and city is
\* the addr:city tag alone
CliToBusiness(el, category) ==
    [name |-> OrElse(el.name, OrElse(el.nameEn, "Unknown Business")),
     category |-> category,
     website |-> OrElse(el.website, OrElse(el.contactWebsite, el.url)),
     city |-> el.addrCity,
     osmId |-> el.id,
     source |-> "OpenStreetMap"]

\* businesses.filter(b => { ... seen ... }): names only, websites play no part
RECURSIVE CliFilterDedup(_, _)
CliFilterDedup(bs, seen) ==
    IF bs = <<>> THEN <<>>
    ELSE LET b == Head(bs)
         IN  IF b.name = "Unknown Business" THEN CliFilterDedup(Tail(bs), seen)
             ELSE IF IntraKey(b) \in seen THEN CliFilterDedup(Tail(bs), seen)
             ELSE <<b>> \o CliFilterDedup(Tail(bs), seen \cup {IntraKey(b)})

\* The value the command-line searchOpenStreetMap returns for a 200 response
CliSearchOpenStreetMap(elements, category) ==
    IF Len(elements) = 0 THEN <<>>
    ELSE CliFilterDedup([i \in 1..Len(elements) |->
                           CliToBusiness(elements[i], category)], {})

\* b => b.website
HasWebsite(b) == b.website # ""

\* A selection that keeps website-bearing records only, whatever the mode
BusinessesToCheckWithWebsites(businesses, config) ==
    SliceTo(SelectSeq(businesses, HasWebsite), config.limit)

\* A selection that cuts to the limit before it looks at websites
BusinessesToCheckCutFirst(businesses, config) ==
    IF config.filterTracking
    THEN SelectSeq(SliceTo(businesses, config.limit), HasWebsite)
    ELSE SliceTo(businesses, config.limit)

\* main: businessesToCheck before step 3
BusinessesToCheck(businesses, config) ==
    IF config.checkTracking
    THEN LET withWebsites == SelectSeq(businesses, HasWebsite)
         IN  IF config.filterTracking
             THEN SliceTo(withWebsites, config.limit)
             ELSE SliceTo(businesses, config.limit)
    ELSE SliceTo(businesses, config.limit)

\* if (!url.startsWith('http')) url = 'https://' + url
NormalizeUrl(url) ==
    IF Len(url) >= 4 /\ SubSeq(url, 1, 4) = "http" THEN url ELSE "https://" \o url

\* The command-line check without its try/catch
CliCheckWebsiteForTrackingUncaught(url, page) ==
    IF url = "" THEN [hasGA |-> FALSE, hasFB |-> FALSE, error |-> <<"No URL">>]
    ELSE IF page.kind = "error" THEN Threw(page.body)
    ELSE IF page.status # 200
    THEN [hasGA |-> FALSE, hasFB |-> FALSE,
          error |-> <<"HTTP " \o ToString(page.status)>>]
    ELSE LET html == ToLowerCase(page.body)
         IN  [hasGA |-> SomePattern(gaPatterns, html),
              hasFB |-> SomePattern(fbPatterns, html), error |-> <<>>]

\* The command-line checkWebsiteForTracking: as the scheduled one, plus an
\* error field (<<>> for null, <<message>> otherwise)
CliCheckWebsiteForTracking(url, page) ==
    IF url = "" THEN [hasGA |-> FALSE, hasFB |-> FALSE, error |-> <<"No URL">>]
    ELSE IF page.kind = "error"
    THEN [hasGA |-> FALSE, hasFB |-> FALSE, error |-> <<page.body>>]
    ELSE IF page.status # 200
    THEN [hasGA |-> FALSE, hasFB |-> FALSE,
          error |-> <<"HTTP " \o ToString(page.status)>>]
    ELSE LET html == ToLowerCase(page.body)
         IN  [hasGA |-> SomePattern(gaPatterns, html),
              hasFB |-> SomePattern(fbPatterns, html), error |-> <<>>]

\* biz.hasGA = ...; biz.hasFB = ...; biz.trackingError = ...
Checked(biz, hasGA, hasFB, trackingError) ==
    [name |-> biz.name, category |-> biz.category, website |-> biz.website,
     city |-> biz.city, osmId |-> biz.osmId, source |-> biz.source,
     hasGA |-> hasGA, hasFB |-> hasFB, trackingError |-> trackingError]

\* One iteration of the loop of checkBusinessesForTracking: the record pushed
\* to results, or the throw of the check
CheckBusiness(biz, page) ==
    IF ~HasWebsite(biz) THEN Checked(biz, FALSE, FALSE, <<"No website">>)
    ELSE LET tracking == CliCheckWebsiteForTracking(biz.website, page)
         IN  IF IsThrow(tracking) THEN tracking
             ELSE Checked(biz, tracking.hasGA, tracking.hasFB, tracking.error)

\* Output that keeps every checked record
FilterKeepingAll(config, results) == results

\* if (config.filterTracking) filter(b => b.hasGA || b.hasFB)
FilterTracking(config, results) ==
    IF config.filterTracking
    THEN SelectSeq(results, LAMBDA b : b.hasGA \/ b.hasFB)
    ELSE results

----------------------------------------------------------------------------
(* The command-line scraper: main, one step per await *)

\* The limits explored besides the default one
MaxLimit == 1
DefaultLimit == 30

\* The --location values explored: the default, one that contains two table
\* keys, one that contains the key of another place, one that contains none
Locations ==
    {"Sacramento, California, USA", "Orange, Los Angeles",
     "Tacoma, Washington", "Reno, Nevada"}

\* What parseArgs can return: --filter sets both flags, --check one
Configs ==
    {[category |-> "dentist", location |-> l, limit |-> n,
      filterTracking |-> m = "filter", checkTracking |-> m # "neither"] :
        l \in Locations,
        n \in (1..MaxLimit) \cup {DefaultLimit},
        m \in {"neither", "check", "filter"}}

\* The locals of main.  elements (the elements of the Overpass response) and
\* requests (the hosts and websites requested so far) only record what
\* happened.
CliOff ==
    [pc |-> "off",
     config |-> [category |-> "dentist", location |-> "", limit |-> DefaultLimit,
                 filterTracking |-> FALSE, checkTracking |-> FALSE],
     coords |-> <<>>, elements |-> <<>>, businesses |-> <<>>,
     businessesToCheck |-> <<>>,
     results |-> <<>>, output |-> <<>>, saved |-> FALSE, error |-> "",
     requests |-> <<>>, searched |-> "none", events |-> <<>>]

\* A step 1 that goes on to the search with the first table entry when
\* geocodeLocation throws
CliGeocodeFallingBack(response) ==
    /\ cli.pc = "geocode"
    /\ LET coords == GeocodeLocation(cli.config.location, response)
       IN  cli' = IF IsThrow(coords)
                  THEN [cli EXCEPT !.pc = "search", !.error = coords.threw,
                                   !.coords = <<[lat |-> US_CITIES[1].lat,
                                                 lon |-> US_CITIES[1].lon,
                                                 displayName |-> US_CITIES[1].name,
                                                 requests |-> coords.requests]>>,
                                   !.requests = @ \o coords.requests]
                  ELSE [cli EXCEPT !.pc = "search", !.coords = <<coords>>,
                                   !.requests = @ \o coords.requests]
    /\ UNCHANGED <<store, adv, cover, probe, csv, gate>>

\* Step 1: geocodeLocation; a throw goes to main's catch (exit code 1)
CliGeocode(response) ==
    /\ cli.pc = "geocode"
    /\ LET coords == GeocodeLocation(cli.config.location, response)
       IN  cli' = IF IsThrow(coords)
                  THEN [cli EXCEPT !.pc = "failed", !.error = coords.threw,
                                   !.requests = @ \o coords.requests]
                  ELSE [cli EXCEPT !.pc = "search", !.coords = <<coords>>,
                                   !.requests = @ \o coords.requests]
    /\ UNCHANGED <<store, adv, cover, probe, csv, gate>>

\* A step 2 whose search throws when the service returns no elements
CliSearchFailingOnEmpty(resp) ==
    /\ cli.pc = "search"
    /\ LET requested == [cli EXCEPT !.requests = @ \o <<"overpass-api.de">>,
                                    !.elements = resp.elements,
                                    !.searched = resp.kind]
           businesses == CliSearchOpenStreetMap(resp.elements, cli.config.category)
           selected == BusinessesToCheck(businesses, cli.config)
       IN  cli' = IF resp.kind # "ok"
                  THEN [requested EXCEPT !.pc = "failed", !.error = resp.kind]
                  ELSE IF Len(resp.elements) = 0
                  THEN [requested EXCEPT !.pc = "failed", !.error = "non200"]
                  ELSE IF Len(businesses) = 0
                  THEN [requested EXCEPT !.pc = "noResults"]
                  ELSE IF cli.config.checkTracking
                  THEN [requested EXCEPT !.pc = "check",
                                         !.businesses = businesses,
                                         !.businessesToCheck = selected]
                  ELSE [requested EXCEPT !.pc = IF Len(selected) = 0
                                                THEN "noLeads" ELSE "save",
                                         !.businesses = businesses,
                                         !.businessesToCheck = selected]
    /\ UNCHANGED <<store, adv, cover, probe, csv, gate>>

\* Step 2: searchOpenStreetMap, the early return on no businesses, and the
\* selection of businessesToCheck
CliSearch(resp) ==
    /\ cli.pc = "search"
    /\ LET requested == [cli EXCEPT !.requests = @ \o <<"overpass-api.de">>,
                                    !.elements = resp.elements,
                                    !.searched = resp.kind]
           businesses == CliSearchOpenStreetMap(resp.elements, cli.config.category)
           selected == BusinessesToCheck(businesses, cli.config)
       IN  cli' = IF resp.kind # "ok"
                  THEN [requested EXCEPT !.pc = "failed", !.error = resp.kind]
                  ELSE IF Len(businesses) = 0
                  THEN [requested EXCEPT !.pc = "noResults"]
                  ELSE IF cli.config.checkTracking
                  THEN [requested EXCEPT !.pc = "check",
                                         !.businesses = businesses,
                                         !.businessesToCheck = selected]
                  ELSE [requested EXCEPT !.pc = IF Len(selected) = 0
                                                THEN "noLeads" ELSE "save",
                                         !.businesses = businesses,
                                         !.businessesToCheck = selected]
    /\ UNCHANGED <<store, adv, cover, probe, csv, gate>>

\* What onProgress is called with
Progress(checked, total, name, status) ==
    [type |-> "progress", checked |-> checked, total |-> total,
     name |-> name, status |-> status]

\* tracking.error ? `error: ...` : `GA: ${hasGA ? 'YES' : 'no'}, FB: ...`
ProgressStatus(result) ==
    IF result.trackingError # <<>> /\ result.trackingError[1] # ""
    THEN "error: " \o result.trackingError[1]
    ELSE "GA: " \o (IF result.hasGA THEN "YES" ELSE "no")
         \o ", FB: " \o (IF result.hasFB THEN "YES" ELSE "no")

CheckDelay == 500

\* An iteration that says nothing about a record it skips
IterationEventsSilentSkip(biz, checked, total, result) ==
    IF ~HasWebsite(biz) THEN <<>>
    ELSE <<[type |-> "delay", ms |-> CheckDelay],
           [type |-> "fetch", url |-> NormalizeUrl(biz.website)],
           [type |-> "response", url |-> NormalizeUrl(biz.website)],
           Progress(checked, total, biz.name, ProgressStatus(result))>>

\* An iteration that waits before every record, with or without a website
IterationEventsDelayingAll(biz, checked, total, result) ==
    IF ~HasWebsite(biz)
    THEN <<[type |-> "delay", ms |-> CheckDelay],
           Progress(checked, total, biz.name, "skipped (no website)")>>
    ELSE <<[type |-> "delay", ms |-> CheckDelay],
           [type |-> "fetch", url |-> NormalizeUrl(biz.website)],
           [type |-> "response", url |-> NormalizeUrl(biz.website)],
           Progress(checked, total, biz.name, ProgressStatus(result))>>

\* What one iteration of the loop of checkBusinessesForTracking does, in
\* order: the callback alone for a record without a website; otherwise the
\* awaited 500 ms timer, the awaited fetch (its start and its end) and the
\* callback
IterationEvents(biz, checked, total, result) ==
    IF ~HasWebsite(biz)
    THEN <<Progress(checked, total, biz.name, "skipped (no website)")>>
    ELSE <<[type |-> "delay", ms |-> CheckDelay],
           [type |-> "fetch", url |-> NormalizeUrl(biz.website)],
           [type |-> "response", url |-> NormalizeUrl(biz.website)],
           Progress(checked, total, biz.name, ProgressStatus(result))>>

\* Step 3, one iteration of the loop of checkBusinessesForTracking
CliCheckNext(page) ==
    /\ cli.pc = "check"
    /\ Len(cli.results) < Len(cli.businessesToCheck)
    /\ LET biz == cli.businessesToCheck[Len(cli.results) + 1]
           result == CheckBusiness(biz, page)
           requested == IF HasWebsite(biz)
                        THEN cli.requests \o <<NormalizeUrl(biz.website)>>
                        ELSE cli.requests
       IN  cli' = IF IsThrow(result)
                  THEN [cli EXCEPT !.pc = "failed", !.error = "check",
                                   !.requests = requested]
                  ELSE [cli EXCEPT !.results = @ \o <<result>>,
                                   !.requests = requested,
                                   !.events = @ \o
                                      IterationEvents(biz, Len(cli.results) + 1,
                                                      Len(cli.businessesToCheck),
                                                      result)]
    /\ UNCHANGED <<store, adv, cover, probe, csv, gate>>

\* Step 3, after the loop: the tracking filter and the early return on no leads
CliFinishChecks ==
    /\ cli.pc = "check"
    /\ Len(cli.results) = Len(cli.businessesToCheck)
    /\ LET kept == FilterTracking(cli.config, cli.results)
       IN  cli' = [cli EXCEPT !.pc = IF Len(kept) = 0 THEN "noLeads" ELSE "save",
                              !.businessesToCheck = kept]
    /\ UNCHANGED <<store, adv, cover, probe, csv, gate>>

\* Step 4: toCSV and fs.writeFileSync, which may throw
CliSave(writeOk) ==
    /\ cli.pc = "save"
    /\ cli' = IF writeOk
              THEN [cli EXCEPT !.pc = "done", !.output = cli.businessesToCheck,
                               !.saved = TRUE]
              ELSE [cli EXCEPT !.pc = "failed", !.error = "write"]
    /\ UNCHANGED <<store, adv, cover, probe, csv, gate>>

CliStep ==
    \/ \E response \in NominatimResponses : CliGeocode(response)
    \/ \E resp \in SearchResponses : CliSearch(resp)
    \/ \E page \in Pages : CliCheckNext(page)
    \/ CliFinishChecks
    \/ \E writeOk \in BOOLEAN : CliSave(writeOk)

----------------------------------------------------------------------------
(* The scheduled function: one invocation at a time (@hourly) *)

\* ---------------------------------------------------------------------
\* The CSV export: toCSV of the command-line scraper and the csv format of
\* the get-leads function
\* ---------------------------------------------------------------------

\* Longest field value the export is tried on
MaxFieldLen == 3

\* A text is a sequence of tokens: a token is one of the three characters the
\* export treats specially, or a run of other characters
Comma == ","
Quote == "\""
Newline == "\n"
Specials == {Comma, Quote, Newline}
Tokens == Specials \cup {"a"}

\* str.replace(/"/g, '""')
RECURSIVE Doubled(_)
Doubled(str) ==
    IF str = <<>> THEN <<>>
    ELSE (IF Head(str) = Quote THEN <<Quote, Quote>> ELSE <<Head(str)>>)
         \o Doubled(Tail(str))

\* An escape that wraps the field in quotes and leaves inner quotes single
EscapeWithoutDoubling(field) ==
    IF \E i \in 1..Len(field) : field[i] \in Specials
    THEN <<Quote>> \o field \o <<Quote>>
    ELSE field

\* const escape = (field) => { const str = String(field || ''); ... }, the
\* same function in toCSV and in the get-leads function; a missing field is
\* the empty text
escape(field) ==
    IF \E i \in 1..Len(field) : field[i] \in Specials
    THEN <<Quote>> \o Doubled(field) \o <<Quote>>
    ELSE field

\* texts.join(sep)
RECURSIVE Join(_, _)
Join(texts, sep) ==
    IF Len(texts) = 0 THEN <<>>
    ELSE IF Len(texts) = 1 THEN texts[1]
    ELSE texts[1] \o sep \o Join(Tail(texts), sep)

\* biz.hasGA ? 'YES' : ''
YesOrBlank(flag) == IF flag THEN <<"YES">> ELSE <<>>

\* toCSV: the 13 headers of the command-line export
headers ==
    << <<"Business Name">>, <<"Category">>, <<"Website">>, <<"Phone">>,
       <<"Email">>, <<"Address">>, <<"City">>, <<"State">>, <<"Has GA?">>,
       <<"Has FB Pixel?">>, <<"Contacted?">>, <<"Notes">>, <<"Source">> >>

\* toCSV: one row of the command-line export
BizRow(biz) ==
    <<biz.name, biz.category, biz.website, biz.phone, biz.email, biz.address,
      biz.city, biz.state, YesOrBlank(biz.hasGA), YesOrBlank(biz.hasFB),
      <<>>, <<>>, biz.source>>

\* [headers.map(escape).join(','), ...rows.map(row => row.map(escape).join(','))].join('\n')
CsvOf(table) ==
    Join([i \in 1..Len(table) |->
             Join([j \in 1..Len(table[i]) |-> escape(table[i][j])], <<Comma>>)],
         <<Newline>>)

toCSV(businesses) ==
    CsvOf(<<headers>> \o [i \in 1..Len(businesses) |-> BizRow(businesses[i])])

\* get-leads, format=csv: the 12 headers, one row, and the body
leadsHeaders ==
    << <<"Business Name">>, <<"Category">>, <<"Website">>, <<"Phone">>,
       <<"Email">>, <<"Address">>, <<"City">>, <<"State">>, <<"Has GA?">>,
       <<"Has FB Pixel?">>, <<"Scraped At">>, <<"Source">> >>

LeadRow(l) ==
    <<l.name, l.category, l.website, l.phone, l.email, l.address,
      l.city, l.state, YesOrBlank(l.hasGA), YesOrBlank(l.hasFB),
      l.scrapedAt, l.source>>

LeadsCsv(leads) ==
    CsvOf(<<leadsHeaders>> \o [i \in 1..Len(leads) |-> LeadRow(leads[i])])

\* A standard CSV reader (RFC 4180): a field that starts with a quote runs to
\* the next quote that is not doubled, a doubled quote inside it is one
\* quote; outside quotes a comma ends the field and a newline ends the row.
\* st is the reader's state after a prefix of the text.
ReaderStart == [mode |-> "fieldStart", field |-> <<>>, row |-> <<>>, rows |-> <<>>]

EndField(st) ==
    [st EXCEPT !.mode = "fieldStart", !.field = <<>>,
               !.row = Append(st.row, st.field)]

EndRow(st) ==
    [st EXCEPT !.mode = "fieldStart", !.field = <<>>, !.row = <<>>,
               !.rows = Append(st.rows, Append(st.row, st.field))]

ReadToken(st, t) ==
    IF st.mode = "quoted"
    THEN IF t = Quote THEN [st EXCEPT !.mode = "quoteInQuoted"]
         ELSE [st EXCEPT !.field = Append(@, t)]
    ELSE IF st.mode = "quoteInQuoted" /\ t = Quote
    THEN [st EXCEPT !.mode = "quoted", !.field = Append(@, Quote)]
    ELSE IF st.mode = "fieldStart" /\ t = Quote
    THEN [st EXCEPT !.mode = "quoted"]
    ELSE IF t = Comma THEN EndField(st)
    ELSE IF t = Newline THEN EndRow(st)
    ELSE [st EXCEPT !.mode = "unquoted", !.field = Append(@, t)]

\* The reader's state after the tokens lo..hi, read from left to right.
\* The range is halved and the left half is read before the right half is
\* entered, so that the evaluation stays shallow.
RECURSIVE ReadRange(_, _, _, _)
ReadRange(text, lo, hi, st) ==
    IF lo > hi THEN st
    ELSE IF lo = hi THEN ReadToken(st, text[lo])
    ELSE LET mid == (lo + hi) \div 2
             left == ReadRange(text, lo, mid, st)
         IN  IF left.mode = "" THEN left
             ELSE ReadRange(text, mid + 1, hi, left)

ReadCsv(text) ==
    IF Len(text) = 0 THEN <<>>
    ELSE EndRow(ReadRange(text, 1, Len(text), ReaderStart)).rows

\* The records the export is tried on: name and address vary, the address
\* over every text of up to MaxFieldLen tokens
Texts(n) == UNION {[1..k -> Tokens] : k \in 0..n}

CsvRecord(name, address, hasGA) ==
    [name |-> name, category |-> <<"dentist">>, website |-> <<"acme.com">>,
     phone |-> <<>>, email |-> <<>>, address |-> address,
     city |-> <<"Sacramento">>, state |-> <<"CA">>,
     hasGA |-> hasGA, hasFB |-> FALSE,
     scrapedAt |-> <<"2026-01-01T00:00:00.000Z">>, source |-> <<"OpenStreetMap">>]

PlainRecord == CsvRecord(<<"Bolt">>, <<"1 Main St">>, TRUE)

CsvRecords ==
    {CsvRecord(name, address, hasGA) :
        name \in {<<"Acme">>, <<"Acme", Comma, " Inc">>},
        address \in Texts(MaxFieldLen), hasGA \in BOOLEAN}

CsvInputs ==
    UNION {{<<r>>, <<r, PlainRecord>>, <<PlainRecord, r>>} : r \in CsvRecords}

CsvIdle == [pc |-> "idle", format |-> "cli", records |-> <<>>, text |-> <<>>,
            rows |-> <<>>]

\* The export is produced: toCSV (writeFileSync) or the csv body of get-leads
Export ==
    /\ csv.pc = "input"
    /\ csv' = [csv EXCEPT !.pc = "exported",
                          !.text = IF csv.format = "cli" THEN toCSV(csv.records)
                                   ELSE LeadsCsv(csv.records)]
    /\ UNCHANGED <<store, adv, cover, cli, probe, gate>>

\* The export is read back by a standard reader
ReadBack ==
    /\ csv.pc = "exported"
    /\ csv' = [csv EXCEPT !.pc = "read", !.rows = ReadCsv(csv.text)]
    /\ UNCHANGED <<store, adv, cover, cli, probe, gate>>

\* ---------------------------------------------------------------------
\* The read endpoints: the get-leads and get-status functions
\* ---------------------------------------------------------------------

PASSWORD == "ztas.io"

\* A header that accepts the secret in either place, whatever the other holds
PassEitherMatches(query, header) ==
    IF query = <<PASSWORD>> \/ header = <<PASSWORD>> THEN <<PASSWORD>> ELSE <<>>

\* url.searchParams.get('password') || req.headers.get('x-password'): an
\* absent parameter is null (<<>>), and null and '' are falsy
Pass(query, header) ==
    IF query # <<>> /\ query[1] # "" THEN query ELSE header

\* new Response(JSON.stringify({ error: 'Unauthorized' }), { status: 401 })
Unauthorized ==
    [status |-> 401, contentType |-> "application/json",
     body |-> [error |-> "Unauthorized"]]

\* leads.slice(-20).reverse()
RecentLeads(leads) ==
    LET n == IF Len(leads) < 20 THEN Len(leads) ELSE 20
    IN  [i \in 1..n |-> leads[Len(leads) + 1 - i]]

\* The body of get-status
Status(leads, state, history) ==
    [totalLeads |-> Len(leads),
     citiesScraped |-> Cardinality({leads[i].scrapedCity : i \in 1..Len(leads)}),
     withGA |-> Cardinality({i \in 1..Len(leads) : leads[i].hasGA}),
     withFB |-> Cardinality({i \in 1..Len(leads) : leads[i].hasFB}),
     withTracking |-> Cardinality({i \in 1..Len(leads) :
                                      leads[i].hasGA \/ leads[i].hasFB}),
     nextCityIndex |-> state.cityIndex,
     nextCategoryIndex |-> state.categoryIndex,
     totalRuns |-> state.totalRuns,
     recentLeads |-> RecentLeads(leads),
     history |-> SliceTo(history, 20)]

\* The passwords a request is tried with: absent, empty, the secret, the
\* secret in capitals, another word
Passwords == {<<>>, <<"">>, <<PASSWORD>>, <<"ZTAS.IO">>, <<"letmein">>}

GateRequests ==
    [endpoint : {"get-leads", "get-status"}, query : Passwords,
     header : Passwords, format : {"json", "csv"}]

GateIdle ==
    [pc |-> "off",
     request |-> [endpoint |-> "get-leads", query |-> <<>>, header |-> <<>>,
                  format |-> "json"],
     response |-> [status |-> 0, contentType |-> "", body |-> <<>>],
     reads |-> {}]

\* A get-leads that stores the list it is about to serve back into the slot
GetLeadsWritingBack(readOk) ==
    /\ gate.pc = "request" /\ gate.request.endpoint = "get-leads"
    /\ LET pass == Pass(gate.request.query, gate.request.header)
           leads == IF readOk THEN SlotOr(leadsSlot, <<>>) ELSE <<>>
       IN  /\ gate' = IF pass # <<PASSWORD>>
                      THEN [gate EXCEPT !.pc = "answered", !.response = Unauthorized]
                      ELSE [gate EXCEPT
                              !.pc = "answered", !.reads = {"all-leads"},
                              !.response =
                                 IF gate.request.format = "csv"
                                 THEN [status |-> 200, contentType |-> "text/csv",
                                       body |-> [csv |-> leads]]
                                 ELSE [status |-> 200,
                                       contentType |-> "application/json",
                                       body |-> leads]]
           /\ leadsSlot' = IF pass # <<PASSWORD>> THEN leadsSlot ELSE <<leads>>
    /\ UNCHANGED <<historySlot, rotationSlot, clock, blobFaults, run,
                   adv, cover, cli, probe, csv>>

\* The get-leads function: the password check, then the one read with its
\* catch, then the csv or json body
GetLeads(readOk) ==
    /\ gate.pc = "request" /\ gate.request.endpoint = "get-leads"
    /\ LET pass == Pass(gate.request.query, gate.request.header)
           leads == IF readOk THEN SlotOr(leadsSlot, <<>>) ELSE <<>>
       IN  gate' = IF pass # <<PASSWORD>>
                   THEN [gate EXCEPT !.pc = "answered", !.response = Unauthorized]
                   ELSE [gate EXCEPT
                           !.pc = "answered", !.reads = {"all-leads"},
                           !.response =
                              IF gate.request.format = "csv"
                              THEN [status |-> 200, contentType |-> "text/csv",
                                    body |-> [csv |-> leads]]
                              ELSE [status |-> 200,
                                    contentType |-> "application/json",
                                    body |-> leads]]
    /\ UNCHANGED <<store, adv, cover, cli, probe, csv>>

\* The get-status function: the password check, then the three reads with
\* their catches, then the statistics
GetStatus(leadsOk, stateOk, historyOk) ==
    /\ gate.pc = "request" /\ gate.request.endpoint = "get-status"
    /\ LET pass == Pass(gate.request.query, gate.request.header)
           leads == IF leadsOk THEN SlotOr(leadsSlot, <<>>) ELSE <<>>
           state == IF stateOk THEN SlotOr(rotationSlot, DefaultState)
                    ELSE DefaultState
           history == IF historyOk THEN SlotOr(historySlot, <<>>) ELSE <<>>
       IN  gate' = IF pass # <<PASSWORD>>
                   THEN [gate EXCEPT !.pc = "answered", !.response = Unauthorized]
                   ELSE [gate EXCEPT
                           !.pc = "answered",
                           !.reads = {"all-leads", "rotation", "history"},
                           !.response =
                              [status |-> 200, contentType |-> "application/json",
                               body |-> Status(leads, state, history)]]
    /\ UNCHANGED <<store, adv, cover, cli, probe, csv>>

\* The rotation state persisted after n invocations that each failed in search
\* (such runs write the rotation slot and nothing else).
RotationAfterFailedRuns(n) ==
    [cityIndex |-> n \div Len(CATEGORIES), categoryIndex |-> n % Len(CATEGORIES),
     totalRuns |-> n]

AdvIdle ==
    [orig |-> DefaultState, prev |-> DefaultState, cur |-> DefaultState, n |-> 0]

\* No check probed yet
ProbeIdle ==
    [url |-> "", page |-> Page("error", 0, ""), applied |-> FALSE,
     scheduled |-> NoTracking, cli |-> NoTracking]

\* No invocation counted yet, starting from rotation state s
CoverFrom(s) == [start |-> s, state |-> s, n |-> 0, seen |-> {}, repeated |-> FALSE]

CoverIdle == CoverFrom(DefaultState)

\* A store whose leads and history slots were never written, no invocation
\* under way
StoreWithRotation(slot) ==
    /\ leadsSlot = <<>>
    /\ historySlot = <<>>
    /\ rotationSlot = slot
    /\ clock = 0
    /\ blobFaults = 0
    /\ run = [p \in Procs |-> RunIdle]
    /\ adv = AdvIdle
    /\ cover = CoverIdle
    /\ cli = CliOff
    /\ probe = ProbeIdle
    /\ csv = CsvIdle
    /\ gate = GateIdle

\* The fresh store: no slot was ever written
Init == StoreWithRotation(<<>>)

\* The store when the last category of the first city is due
InitCityChange ==
    StoreWithRotation(<<RotationAfterFailedRuns(Len(CATEGORIES) - 1)>>)

\* The store when the last combination of the table is due
InitTableEnd ==
    StoreWithRotation(<<RotationAfterFailedRuns(Len(CATEGORIES) * Len(CITIES) - 1)>>)

Next == Step("r1")

Spec == Init /\ [][Next]_vars

SpecCityChange == InitCityChange /\ [][Next]_vars

SpecTableEnd == InitTableEnd /\ [][Next]_vars

----------------------------------------------------------------------------
(* The rotation advance on its own: Advance applied again and again to a   *)
(* rotation state whose indices are in the range of the tables             *)

\* Every in-range pair of indices, as persisted after n runs from the fresh store
InRangeStates ==
    {RotationAfterFailedRuns(n) : n \in 0..(Len(CATEGORIES) * Len(CITIES) - 1)}

InitAdvance ==
    /\ leadsSlot = <<>>
    /\ historySlot = <<>>
    /\ rotationSlot = <<>>
    /\ clock = 0
    /\ blobFaults = 0
    /\ run = [p \in Procs |-> RunIdle]
    /\ adv \in {[orig |-> s, prev |-> s, cur |-> s, n |-> 0] : s \in InRangeStates}
    /\ cover = CoverIdle
    /\ cli = CliOff
    /\ probe = ProbeIdle
    /\ csv = CsvIdle
    /\ gate = GateIdle

ApplyAdvance ==
    /\ adv.n < Len(CATEGORIES) * Len(CITIES)
    /\ adv' = [adv EXCEPT !.prev = adv.cur, !.cur = Advance(adv.cur),
                          !.n = adv.n + 1]
    /\ UNCHANGED <<store, cover, cli, probe, csv, gate>>

NextAdvance == ApplyAdvance

SpecAdvance == InitAdvance /\ [][NextAdvance]_vars

----------------------------------------------------------------------------
(* Consecutive invocations whose slot reads and writes succeed: which      *)
(* (category, city) combination each selects, whether its search succeeds  *)
(* or throws                                                               *)

Combinations ==
    {<<CATEGORIES[i], CITIES[j]>> : i \in 1..Len(CATEGORIES), j \in 1..Len(CITIES)}

\* Numbers of invocations after which the window of invocations starts: the
\* fresh store, inside a city, at a city change, at the end of the table and
\* beyond it
CoverStarts == {0, 1, 13, 14, 349, 686, 699, 700, 701, 1413}

InitCover ==
    /\ leadsSlot = <<>>
    /\ historySlot = <<>>
    /\ rotationSlot = <<>>
    /\ clock = 0
    /\ blobFaults = 0
    /\ run = [p \in Procs |-> RunIdle]
    /\ adv = AdvIdle
    /\ cover \in {CoverFrom(RotationAfterFailedRuns(n)) : n \in CoverStarts}
    /\ cli = CliOff
    /\ probe = ProbeIdle
    /\ csv = CsvIdle
    /\ gate = GateIdle

\* One invocation: it loads the state the previous one persisted, selects
\* city and category, and persists the state advanced once: after the
\* history write when the search succeeded, in the catch branch when it threw.
CoverInvocation(searchOk) ==
    /\ cover.n < Cardinality(Combinations)
    /\ LET selected == <<CurrentCategory(cover.state), CurrentCity(cover.state)>>
           persisted == IF searchOk THEN Advance(cover.state)
                        ELSE Advance(cover.state)
       IN  cover' = [cover EXCEPT
                        !.state = persisted,
                        !.n = cover.n + 1,
                        !.seen = cover.seen \cup {selected},
                        !.repeated = cover.repeated \/ selected \in cover.seen]
    /\ UNCHANGED <<store, adv, cli, probe, csv, gate>>

NextCover == \E searchOk \in BOOLEAN : CoverInvocation(searchOk)

SpecCover == InitCover /\ [][NextCover]_vars

----------------------------------------------------------------------------
(* One run of the command-line scraper, and either program on its own *)

\* main has parsed its arguments; the scheduled function is not running
InitCli ==
    /\ leadsSlot = <<>>
    /\ historySlot = <<>>
    /\ rotationSlot = <<>>
    /\ clock = 0
    /\ blobFaults = 0
    /\ run = [p \in Procs |-> RunIdle]
    /\ adv = AdvIdle
    /\ cover = CoverIdle
    /\ cli \in {[CliOff EXCEPT !.pc = "geocode", !.config = c] : c \in Configs}
    /\ probe = ProbeIdle
    /\ csv = CsvIdle
    /\ gate = GateIdle

NextCli == CliStep

SpecCli == InitCli /\ [][NextCli]_vars

\* The scheduled function on the fresh store, or one command-line run
InitEither == Init \/ InitCli

NextEither ==
    \/ cli.pc = "off" /\ Next
    \/ NextCli

SpecEither == InitEither /\ [][NextEither]_vars

----------------------------------------------------------------------------
(* checkWebsiteForTracking on its own, in both programs: one call on a url *)
(* whose fetch has the outcome `page`                                      *)

InitProbe ==
    /\ leadsSlot = <<>>
    /\ historySlot = <<>>
    /\ rotationSlot = <<>>
    /\ clock = 0
    /\ blobFaults = 0
    /\ run = [p \in Procs |-> RunIdle]
    /\ adv = AdvIdle
    /\ cover = CoverIdle
    /\ cli = CliOff
    /\ probe \in {[ProbeIdle EXCEPT !.url = u, !.page = pg] :
                     u \in ProbeUrls, pg \in ProbePages}
    /\ csv = CsvIdle
    /\ gate = GateIdle

ApplyCheck ==
    /\ ~probe.applied
    /\ probe' = [probe EXCEPT
                    !.applied = TRUE,
                    !.scheduled = CheckWebsiteForTracking(probe.url, probe.page),
                    !.cli = CliCheckWebsiteForTracking(probe.url, probe.page)]
    /\ UNCHANGED <<store, adv, cover, cli, csv, gate>>

NextProbe == ApplyCheck

SpecProbe == InitProbe /\ [][NextProbe]_vars

----------------------------------------------------------------------------
(* Properties of the scheduled function *)

\* The invocation the properties look at, and the lead lists before and now
R == run["r1"]
Leads == SlotOr(leadsSlot, <<>>)
PreLeads == SlotOr(R.pre.leads, <<>>)
SearchFailures == {"non200", "timeout", "badjson"}

\* The invocation has ended with an answer (200 or 500)
Answered == R.pc = "done" /\ R.response.kind \in {"ok", "failed"}

Contains(seq, x) == \E i \in 1..Len(seq) : seq[i] = x

\* C1: after any sequence of non-overlapping runs from an empty store, no two
\* leads of the 'all-leads' slot have the same key
\* lowercase(name) + "-" + lowercase(scrapedCity); a lead qualified again in
\* a later run is stored once.
C1_NoDuplicateKeys ==
    \A i, j \in 1..Len(Leads) :
        i # j => CrossRunKey(Leads[i]) # CrossRunKey(Leads[j])

\* C1 witness: a run has ended with success, one of its qualified leads had
\* its key in the slot already, and the slot holds that key exactly once.
C1_Witness ==
    /\ R.pc = "done" /\ R.response.success
    /\ "readLeads" \notin R.faults
    /\ \E i \in 1..Len(R.qualifiedLeads) :
          /\ CrossRunKey(R.qualifiedLeads[i]) \in ExistingKeys(PreLeads)
          /\ Cardinality({j \in 1..Len(Leads) :
                CrossRunKey(Leads[j]) = CrossRunKey(R.qualifiedLeads[i])}) = 1

\* C2: whatever the outcome of a run, every lead that was in the 'all-leads'
\* slot before the run is still in it after the run.
C2_NoLeadLost ==
    R.pc = "done" => \A i \in 1..Len(PreLeads) : Contains(Leads, PreLeads[i])

\* C3: a run that writes the leads writes the old list, unchanged in order
\* and in every field, followed by the leads it added; a stored key is never
\* overwritten.
C3_FirstWriteWins ==
    "leads" \in R.wrote =>
        /\ Leads = PreLeads \o R.newLeads
        /\ \A i \in 1..Len(R.newLeads) :
              CrossRunKey(R.newLeads[i]) \notin ExistingKeys(PreLeads)

\* The first element of a response that has a name, a website and this
\* lower-cased name
FirstOccurrence(elements, category, cityName, key) ==
    LET bs == [i \in 1..Len(elements) |->
                  ToBusiness(elements[i], category, cityName, 0)]
        hits == {i \in 1..Len(bs) :
                    /\ bs[i].name # "Unknown Business"
                    /\ bs[i].website # ""
                    /\ IntraKey(bs[i]) = key}
    IN  bs[CHOOSE i \in hits : \A j \in hits : i <= j]

\* Within one response, the businesses kept have pairwise different
\* lower-cased names and each is the first occurrence of its name
IntraResponseCollapse ==
    \A es \in BoundedSeq(Elements, MaxElements) :
        LET bs == SearchOpenStreetMap(es, "dentist", "Los Angeles", SearchLimit, 0)
        IN  /\ \A i, j \in 1..Len(bs) : i # j => IntraKey(bs[i]) # IntraKey(bs[j])
            /\ \A i \in 1..Len(bs) :
                  bs[i] = FirstOccurrence(es, "dentist", "Los Angeles",
                                          IntraKey(bs[i]))

\* C4: two qualified businesses with the same name and different scrapedCity
\* are both kept in the store, while elements of one response whose names
\* are equal ignoring case collapse to the first occurrence.
C4_KeysDiffer ==
    /\ IntraResponseCollapse
    /\ "leads" \in R.wrote =>
          \A i \in 1..Len(R.qualifiedLeads), j \in 1..Len(PreLeads) :
              LET q == R.qualifiedLeads[i]
                  s == PreLeads[j]
              IN  (q.name = s.name /\ q.scrapedCity # s.scrapedCity)
                    => (Contains(Leads, q) /\ Contains(Leads, s))

\* C4 witness of the part that holds: a run in another city has added a
\* lead whose name is stored for the first city, and the slot holds both.
C4_BothCitiesStored ==
    /\ Answered /\ R.response.success
    /\ \E i, j \in 1..Len(Leads) :
          /\ Leads[i].name = Leads[j].name
          /\ Leads[i].scrapedCity # Leads[j].scrapedCity

\* C5: one advance is a mixed-radix increment: the new categoryIndex is
\* (old + 1) mod C, and the city index becomes (old + 1) mod L exactly when
\* the category index wrapped to 0, and is unchanged otherwise.
C5_MixedRadixIncrement ==
    adv.n > 0 =>
        LET C == Len(CATEGORIES)
            L == Len(CITIES)
            wrapped == adv.prev.categoryIndex + 1 = C
        IN  /\ adv.cur.categoryIndex = (adv.prev.categoryIndex + 1) % C
            /\ adv.cur.cityIndex =
                  IF wrapped THEN (adv.prev.cityIndex + 1) % L
                  ELSE adv.prev.cityIndex

\* C5, the scenario: from (0,0) two advances give (1,0), then (2,0)
C5_Scenario ==
    (adv.orig = DefaultState /\ adv.n \in {1, 2}) =>
        (adv.cur.categoryIndex = adv.n /\ adv.cur.cityIndex = 0)

\* C6: in every persisted rotation state, categoryIndex is in
\* [0, number of categories - 1] and cityIndex in [0, number of cities - 1].
C6_IndicesInRange ==
    rotationSlot # <<>> =>
        /\ rotationSlot[1].categoryIndex \in 0..(Len(CATEGORIES) - 1)
        /\ rotationSlot[1].cityIndex \in 0..(Len(CITIES) - 1)

\* C7: C*L advances from an in-range state return the pair
\* (categoryIndex, cityIndex) to its original value.
C7_FullCycleReturns ==
    adv.n = Len(CATEGORIES) * Len(CITIES) =>
        /\ adv.cur.categoryIndex = adv.orig.categoryIndex
        /\ adv.cur.cityIndex = adv.orig.cityIndex

\* C8: whatever the outcome of an invocation, the persisted totalRuns has
\* grown by exactly 1 when the invocation has answered.
C8_TotalRunsPlusOne ==
    Answered =>
        SlotOr(rotationSlot, DefaultState).totalRuns
            = SlotOr(R.pre.rotation, DefaultState).totalRuns + 1

\* C9: the rotation advances exactly one step per run on every path: a run
\* that has answered, with 200 or after a throw inside its data work with
\* 500, has persisted the rotation state one advance past the one it loaded.
C9_OneAdvancePerRun ==
    Answered => rotationSlot = <<Advance(R.loaded)>>

\* C10: when a run fails in business search, a history entry for that run
\* is recorded in the history slot.
C10_HistoryEntryOnSearchFailure ==
    (Answered /\ R.error \in SearchFailures) =>
        /\ historySlot # <<>>
        /\ Len(historySlot[1]) > 0
        /\ historySlot[1][1].timestamp = R.now

\* C10 as amended: a run that fails in business search leaves the history
\* slot exactly as it found it; only the rotation slot is written.
C10_NoHistoryOnSearchFailure ==
    R.error \in SearchFailures =>
        /\ historySlot = R.pre.history
        /\ R.wrote \subseteq {"rotation"}

\* C10 witness: after a run that logged a history entry, a run has failed in
\* search, advanced the rotation and answered 500.
C10_Witness ==
    /\ Answered /\ R.error \in SearchFailures
    /\ R.response.status = 500
    /\ historySlot # <<>> /\ Len(historySlot[1]) > 0
    /\ rotationSlot = <<Advance(R.loaded)>>

\* C11: a run that ends in the failed outcome (status 500, success false) has
\* persisted none of its data: the 'all-leads' slot and the history slot hold
\* the values they held before the run.
C11_NoPartialPersistence ==
    (Answered /\ R.response.kind = "failed") =>
        /\ Leads = PreLeads
        /\ SlotOr(historySlot, <<>>) = SlotOr(R.pre.history, <<>>)

\* C12: the rotation covers the whole space: in any C*L consecutive
\* invocations whose slot reads and writes succeed (the search succeeding or
\* failing) no (category, city) combination is selected twice, so after C*L
\* of them every combination has been selected exactly once.
C12_EveryCombinationOnce ==
    /\ ~cover.repeated
    /\ Cardinality(cover.seen) = cover.n
    /\ cover.n = Len(CATEGORIES) * Len(CITIES) => cover.seen = Combinations

\* C12 witness: a window of C*L invocations that started inside the table
\* and ran across its end is complete
C12_Witness ==
    /\ cover.n = Len(CATEGORIES) * Len(CITIES)
    /\ cover.start.cityIndex > 0
    /\ cover.state.cityIndex >= Len(CITIES)
    /\ cover.seen = Combinations

----------------------------------------------------------------------------
(* Properties of the command-line scraper and of both programs *)

\* C13: filter-mode exclusivity: every record of the command-line scraper's
\* output in filter mode, and every lead the scheduled function has written
\* to the 'all-leads' slot, has hasGA or hasFB true.
C13_OnlyTrackedLeads ==
    /\ \A i \in 1..Len(Leads) : Leads[i].hasGA \/ Leads[i].hasFB
    /\ (cli.config.filterTracking /\ cli.saved) =>
          \A i \in 1..Len(cli.output) : cli.output[i].hasGA \/ cli.output[i].hasFB

\* C13 witness: a filter-mode run has checked two websites, dropped the one
\* without tracking and saved the other
C13_Witness ==
    /\ cli.pc = "done" /\ cli.config.filterTracking /\ cli.saved
    /\ Len(cli.results) = 2 /\ Len(cli.output) = 1
    /\ \E i \in 1..2 : ~cli.results[i].hasGA /\ ~cli.results[i].hasFB

\* The hosts main itself requests; every other request is a website fetch
ApiHosts == {"nominatim.openstreetmap.org", "overpass-api.de"}

TrackingFields == {"hasGA", "hasFB", "trackingError"}

\* C14: in neither-mode (no --check, no --filter) the run never enters
\* detection: no website is fetched, no record receives hasGA, hasFB or
\* trackingError, and the output is the first `limit` located records,
\* those without a website included.
C14_NeitherModeSkipsDetection ==
    ~cli.config.checkTracking =>
        /\ cli.pc # "check" /\ cli.results = <<>>
        /\ \A i \in 1..Len(cli.requests) : cli.requests[i] \in ApiHosts
        /\ \A i \in 1..Len(cli.businessesToCheck) :
              DOMAIN cli.businessesToCheck[i] \cap TrackingFields = {}
        /\ cli.saved =>
              /\ cli.output = SliceTo(cli.businesses, cli.config.limit)
              /\ \A i \in 1..Len(cli.output) :
                    DOMAIN cli.output[i] \cap TrackingFields = {}

\* C14 witness: a neither-mode run located two businesses, the first one
\* without a website, and saved that one under limit 1
C14_Witness ==
    /\ ~cli.config.checkTracking /\ cli.saved /\ cli.pc = "done"
    /\ Len(cli.businesses) = 2 /\ cli.config.limit = 1
    /\ Len(cli.output) = 1 /\ ~HasWebsite(cli.output[1])

\* The call resolved to an object with boolean hasGA and hasFB
WellFormed(result) ==
    /\ ~IsThrow(result)
    /\ {"hasGA", "hasFB"} \subseteq DOMAIN result
    /\ result.hasGA \in BOOLEAN /\ result.hasFB \in BOOLEAN

\* The url is empty, the fetch got no response, or the status was not 200
CheckFailed == probe.url = "" \/ probe.page.kind = "error" \/ probe.page.status # 200

\* C15: detection is total: checkWebsiteForTracking (scheduled and
\* command-line) resolves, for any url and any outcome of its fetch, to an
\* object with boolean hasGA and hasFB and never throws; every failure case
\* yields both flags false.
C15_DetectionTotal ==
    probe.applied =>
        /\ WellFormed(probe.scheduled) /\ WellFormed(probe.cli)
        /\ CheckFailed =>
              /\ probe.scheduled = NoTracking
              /\ ~probe.cli.hasGA /\ ~probe.cli.hasFB

\* C15 witness: a check of a non-empty url whose fetch timed out has returned
\* no tracking
C15_Witness ==
    /\ probe.applied /\ probe.url = "not a url"
    /\ probe.page = Page("error", 0, "Request timeout")
    /\ probe.scheduled = NoTracking
    /\ probe.cli.error = <<"Request timeout">>

\* The candidates a command-line run hands to checkBusinessesForTracking
Candidates == BusinessesToCheck(cli.businesses, cli.config)

\* The command-line run is past step 3
ChecksFinished ==
    cli.config.checkTracking /\ cli.pc \in {"save", "done", "noLeads"}

\* C16: a failure of one website check never aborts a run: whichever
\* candidate websites fail, the scheduled run goes on to persistence and the
\* command-line run checks every remaining candidate and reaches its output,
\* the failed ones counting as having no tracking.
C16_FailedCheckNeverAborts ==
    /\ R.error # "detect"
    /\ R.pc = "catch" =>
          R.error \in SearchFailures \cup {"writeLeads", "writeHistory", "writeRotation"}
    /\ cli.error # "check"
    /\ \A i \in 1..Len(cli.results) :
          /\ cli.results[i].osmId = Candidates[i].osmId
          /\ cli.results[i].trackingError # <<>> =>
                ~cli.results[i].hasGA /\ ~cli.results[i].hasFB
    /\ ChecksFinished => Len(cli.results) = Len(Candidates)

\* C16 witness: the check of the first candidate's website failed, the second
\* candidate was checked all the same and found tracking, and the run saved
\* its output
C16_Witness ==
    /\ ChecksFinished /\ cli.saved /\ Len(cli.results) = 2
    /\ HasWebsite(cli.results[1])
    /\ cli.results[1].trackingError = <<"">>
    /\ cli.results[2].hasGA
    /\ cli.output[Len(cli.output)].osmId = cli.results[2].osmId

\* C17: the history slot is bounded and ordered: after every run that
\* appends, history has at most 100 entries, its first entry is the entry of
\* the run just completed, and the rest is the previous history in its
\* previous order, cut at the oldest end only.
C17_HistoryBoundedOrdered ==
    "history" \in R.wrote =>
        LET history == SlotOr(historySlot, <<>>)
            previous == SlotOr(R.pre.history, <<>>)
        IN  /\ Len(history) <= HistoryLimit
            /\ Len(history) > 0 /\ history[1].timestamp = R.now
            /\ Tail(history) = SliceTo(previous, HistoryLimit - 1)

\* The located records that have a website, and the selection as main made it
\* (businessesToCheck holds it until step 3 is over)
WithWebsites == SelectSeq(cli.businesses, HasWebsite)
SelectionMade ==
    \/ cli.pc = "check"
    \/ ~cli.config.checkTracking /\ cli.pc \in {"save", "done"}

LaterTwinWithWebsite(elements, j) ==
    LET b(i) == CliToBusiness(elements[i], "dentist")
    IN  /\ HasWebsite(b(j)) /\ b(j).name # "Unknown Business"
        /\ \E i \in 1..(j - 1) : IntraKey(b(i)) = IntraKey(b(j))
        /\ \A i \in 1..(j - 1) : IntraKey(b(i)) = IntraKey(b(j)) => ~HasWebsite(b(i))

KeepsElement(businesses, el) ==
    \E k \in 1..Len(businesses) : businesses[k].osmId = el.id

\* C19: when tracking detection is requested, records without a website are
\* excluded before the name-based identity accounting: of two records of a
\* response with the same name (ignoring case) of which only the later has a
\* website, the website-bearing one is kept and checked, in the command-line
\* scraper's filter mode as in the scheduled function.
C19_WebsiteBearingTwinKept ==
    /\ (cli.config.filterTracking /\ cli.pc = "check"
            /\ cli.config.limit >= Len(cli.elements)) =>
          \A j \in 1..Len(cli.elements) :
              LaterTwinWithWebsite(cli.elements, j) =>
                  KeepsElement(cli.businessesToCheck, cli.elements[j])
    /\ \A es \in BoundedSeq(Elements, MaxElements) :
          \A j \in 1..Len(es) :
              LaterTwinWithWebsite(es, j) =>
                  KeepsElement(SearchOpenStreetMap(es, CATEGORIES[1], CITIES[1],
                                                   SearchLimit, 1), es[j])

\* The table keys each explored location contains once lower-cased, computed
\* once, and those of the location of the run
KeysOfLocation ==
    [l \in Locations \cup {""} |->
        {k \in 1..Len(US_CITIES) : Includes(ToLowerCase(l), US_CITIES[k].city)}]
KeysContained == KeysOfLocation[cli.config.location]

\* geocodeLocation has returned or thrown
Geocoded == cli.pc \notin {"off", "geocode"}

GeocodingFailures ==
    {"Nominatim rate limited", "Geocoding failed", "Could not find location"}

Nominatim == "nominatim.openstreetmap.org"

\* C21: geocoding failure is terminal and comes before any other effect: on
\* a table miss exactly one geocoding request is made, and when it returns a
\* rate-limit status, another non-200 status or an empty list the run fails
\* with that request as its only request: no business search, no website
\* fetch, no file written.
C21_GeocodingFailureTerminal ==
    /\ (Geocoded /\ KeysContained = {}) =>
          /\ Len(cli.requests) >= 1 /\ cli.requests[1] = Nominatim
          /\ \A i \in 2..Len(cli.requests) : cli.requests[i] # Nominatim
    /\ cli.error \in GeocodingFailures =>
          /\ cli.pc = "failed"
          /\ cli.requests = <<Nominatim>>
          /\ cli.coords = <<>> /\ cli.elements = <<>> /\ cli.businesses = <<>>
          /\ ~cli.saved /\ cli.output = <<>>

\* C21 witness: 'Reno, Nevada' is in no table key, Nominatim returned an
\* empty list and the run has failed after that one request
C21_Witness ==
    /\ cli.pc = "failed" /\ cli.config.location = "Reno, Nevada"
    /\ cli.error = "Could not find location"
    /\ cli.requests = <<Nominatim>> /\ ~cli.saved

Overpass == "overpass-api.de"

\* The number of entries of seq that equal x
Count(seq, x) == Cardinality({i \in 1..Len(seq) : seq[i] = x})

\* C22, as stated: the business search fails only when the transport status
\* is not 200, in the scheduled handler and in the CLI.
C22_FailsOnlyOnNon200 ==
    /\ R.error \in SearchFailures => R.error = "non200"
    /\ cli.error \in SearchFailures => cli.searched = "non200"

\* C22, amended: the business search issues exactly one request per call,
\* returns the empty sequence without failing when the service returns no
\* elements, and fails only when the request itself fails, the status is not
\* 200 or the body of a 200 response is not JSON.
C22_OneRequestEmptyIsNoFailure ==
    /\ Count(cli.requests, Overpass) = IF cli.searched = "none" THEN 0 ELSE 1
    /\ (cli.searched = "ok" /\ Len(cli.elements) = 0) =>
          cli.pc = "noResults" /\ cli.error = "" /\ cli.businesses = <<>>
    /\ cli.searched = "ok" => cli.error \notin SearchFailures
    /\ cli.searched \in SearchFailures =>
          cli.pc = "failed" /\ cli.error = cli.searched
    /\ R.error \in SearchFailures =>
          R.businesses = <<>> /\ R.pc \in {"catch", "done"}
    /\ (R.pc = "detect" /\ R.businesses = <<>>) => R.error = ""

\* C22 witness: the service answered 200 with no elements and the CLI run
\* ended with "no businesses found" after one search request
C22_Witness ==
    /\ cli.searched = "ok" /\ Len(cli.elements) = 0 /\ cli.pc = "noResults"
    /\ Count(cli.requests, Overpass) = 1

\* The first invocation on a store none of whose slots was ever written
FirstRun ==
    /\ R.pc # "idle" /\ R.now = 1
    /\ R.pre = [leads |-> <<>>, history |-> <<>>, rotation |-> <<>>]

\* C23: first-run bootstrap: a never-written slot loads as its zero value
\* (rotation {0, 0, 0}, empty lead list, empty history) without error, so a
\* first run on an empty store whose search and checks succeed completes and
\* leaves rotation at categoryIndex 1, cityIndex 0, totalRuns 1 and a history
\* of length 1.
C23_FirstRunBootstrap ==
    (FirstRun /\ R.faults = {}) =>
       /\ R.loaded = [cityIndex |-> 0, categoryIndex |-> 0, totalRuns |-> 0]
       /\ R.error \in {""} \cup SearchFailures \cup {"detect"}
       /\ R.pc \in {"readHistory", "writeHistory", "advance"} => R.allLeads = R.newLeads
       /\ R.pc \in {"writeHistory", "advance"} => Len(R.history) = 1
       /\ (R.pc = "done" /\ R.error = "") =>
             /\ R.response.kind = "ok" /\ R.response.status = 200
             /\ rotationSlot = <<[cityIndex |-> 0, categoryIndex |-> 1,
                                  totalRuns |-> 1]>>
             /\ historySlot # <<>> /\ Len(historySlot[1]) = 1
             /\ leadsSlot = <<R.newLeads>>

\* C23 witness: the first run on the empty store has completed with a lead
\* stored, no blob call having thrown
C23_Witness ==
    /\ FirstRun /\ R.faults = {} /\ R.pc = "done" /\ R.error = ""
    /\ rotationSlot = <<[cityIndex |-> 0, categoryIndex |-> 1, totalRuns |-> 1]>>
    /\ Len(historySlot[1]) = 1 /\ Len(leadsSlot[1]) = 1

\* The invocation is loading state, searching or checking websites, or has
\* read the stored leads and is about to make its first write (line 299)
BeforeCommit == R.pc \in {"search", "detect", "readLeads", "writeLeads"}

\* C24: crash before commit is equivalent to the run never having happened:
\* at every point before the run starts writing its results (an external kill
\* stops the run where it is), the leads, history and rotation slots hold
\* exactly their pre-run values.
C24_CrashBeforeCommit ==
    BeforeCommit =>
        /\ leadsSlot = R.pre.leads
        /\ historySlot = R.pre.history
        /\ rotationSlot = R.pre.rotation
        /\ R.wrote = {}

\* C24 witness: the second run has found a qualified lead and has written
\* nothing yet; the slots hold what the first run left
C24_Witness ==
    /\ R.pc = "writeLeads" /\ R.now = 2 /\ R.newLeads # <<>>
    /\ R.pre.rotation # <<>> /\ rotationSlot = R.pre.rotation
    /\ leadsSlot = R.pre.leads /\ historySlot = R.pre.history

\* A step of invocation p none of whose blob calls throws
StepUnfailing(p) ==
    \/ LoadRotation(p, TRUE)
    \/ \E resp \in SearchResponses : Search(p, resp)
    \/ \E pages \in [1..Len(run[p].businesses) -> SitePages] : Detect(p, pages)
    \/ ReadLeads(p, TRUE)
    \/ WriteLeads(p, TRUE)
    \/ ReadHistory(p, TRUE)
    \/ WriteHistory(p, TRUE)
    \/ AdvanceRotation(p, TRUE)
    \/ Catch(p, TRUE)

\* Two invocations of the handler, one per process, that may overlap: the
\* scheduler does not wait for one invocation to end before it starts the
\* next
NextOverlap == \E p \in Procs : run[p].pc # "done" /\ StepUnfailing(p)
SpecOverlap == Init /\ [][NextOverlap]_vars

\* The lead list invocation p read from the 'all-leads' slot: allLeads is
\* [...allLeads, ...newLeads]
Existing(p) ==
    SubSeq(run[p].allLeads, 1, Len(run[p].allLeads) - Len(run[p].newLeads))

\* Both invocations read the leads of the fresh store (nothing stored when
\* they read) and both have written their list
BothReadThenWrote ==
    \A p \in Procs : "leads" \in run[p].wrote /\ Existing(p) = <<>>

\* A lead of q's new leads that the stored list does not hold
LostLeadOf(q) ==
    \E i \in 1..Len(run[q].newLeads) :
        CrossRunKey(run[q].newLeads[i]) \notin ExistingKeys(Leads)

\* Every change of the 'all-leads' slot is the write of one invocation, and
\* the new value is that invocation's own list, whatever the slot held
WriteReplaces ==
    leadsSlot' # leadsSlot =>
        \E p \in Procs : /\ run[p].pc = "writeLeads"
                         /\ "leads" \in run'[p].wrote
                         /\ leadsSlot' = <<run[p].allLeads>>

\* After two overlapping writes the slot is one writer's list and holds
\* nothing the other writer alone added
OneWritersList ==
    BothReadThenWrote =>
        \E p \in Procs :
            /\ leadsSlot = <<run[p].newLeads>>
            /\ \A q \in Procs \ {p} :
                 \A i \in 1..Len(run[q].newLeads) :
                    CrossRunKey(run[q].newLeads[i])
                        \notin ExistingKeys(run[p].newLeads)
                    => CrossRunKey(run[q].newLeads[i]) \notin ExistingKeys(Leads)

\* C25: overlapping runs are last-writer-wins with no merge: every write of
\* the leads slot replaces it by the writer's own list, so when two runs
\* both read the leads before either writes, the final slot is exactly the
\* later writer's list and leads added only by the earlier writer are absent.
C25_LastWriterWins == [][WriteReplaces]_vars /\ []OneWritersList

\* C25 witness: both runs read the empty store and both wrote; the slot is
\* one run's list and a lead the other run added is lost
C25_Witness ==
    /\ BothReadThenWrote
    /\ \E p \in Procs : \E q \in Procs \ {p} :
          leadsSlot = <<run[p].newLeads>> /\ LostLeadOf(q)

\* The invocation has answered 500 from its catch branch
FailureReported == Answered /\ R.response.kind = "failed"

\* C26, as stated: the failure response of a scheduled run identifies the
\* category, the city and the ordinal (totalRuns + 1) of the run that failed.
C26_ResponseCarriesOrdinal ==
    FailureReported =>
        /\ R.response.city = CurrentCity(R.loaded)
        /\ R.response.category = CurrentCategory(R.loaded)
        /\ "ordinal" \in DOMAIN R.response
        /\ R.response.ordinal = R.loaded.totalRuns + 1

\* C26, amended: the failure response (status 500, success false) carries
\* the error and the category and city of the run that failed, not those the
\* rotation moved on to; the ordinal totalRuns + 1 is no field of the
\* response and is reported only by the log line written when the run
\* starts.
C26_FailureNamesCombination ==
    /\ FailureReported =>
          /\ R.response.status = 500 /\ ~R.response.success
          /\ R.response.error = R.error
          /\ R.response.city = CurrentCity(R.loaded)
          /\ R.response.category = CurrentCategory(R.loaded)
          /\ DOMAIN R.response \cap {"ordinal", "run", "totalRuns"} = {}
    /\ R.pc # "idle" => R.logged = R.loaded.totalRuns + 1

\* C26 witness: the second run failed in its search; its response names the
\* combination it searched while the rotation already points to the next
C26_Witness ==
    /\ FailureReported /\ R.error \in SearchFailures /\ R.logged = 2
    /\ R.response.category = CurrentCategory(R.loaded)
    /\ R.response.category # CurrentCategory(SlotOr(rotationSlot, DefaultState))

\* The CSV export as a function of its records, in both formats
InitCsv ==
    /\ leadsSlot = <<>>
    /\ historySlot = <<>>
    /\ rotationSlot = <<>>
    /\ clock = 0
    /\ blobFaults = 0
    /\ run = [p \in Procs |-> RunIdle]
    /\ adv = AdvIdle
    /\ cover = CoverIdle
    /\ cli = CliOff
    /\ probe = ProbeIdle
    /\ csv \in {[CsvIdle EXCEPT !.pc = "input", !.format = f, !.records = rs] :
                   f \in {"cli", "handler"}, rs \in CsvInputs}
    /\ gate = GateIdle

NextCsv == Export \/ ReadBack

SpecCsv == InitCsv /\ [][NextCsv]_vars

\* The table a text was exported from
Exported ==
    IF csv.format = "cli"
    THEN <<headers>> \o [i \in 1..Len(csv.records) |-> BizRow(csv.records[i])]
    ELSE <<leadsHeaders>> \o [i \in 1..Len(csv.records) |-> LeadRow(csv.records[i])]

\* The text holds a comma, a double quote and a newline
AllSpecials(text) == \A c \in Specials : \E i \in 1..Len(text) : text[i] = c

\* C27: CSV round-trip: a field that holds a comma, a double quote or a
\* newline is emitted quoted with its quotes doubled, so that a standard
\* reader gets back every field exactly as it was and every row with the
\* fixed number of columns (13 for the command-line export, 12 for get-leads).
C27_CsvRoundTrip ==
    csv.pc = "read" =>
        /\ csv.rows = Exported
        /\ \A i \in 1..Len(csv.rows) :
              Len(csv.rows[i]) = IF csv.format = "cli" THEN Len(headers)
                                 ELSE Len(leadsHeaders)
        /\ Len(csv.rows) = Len(csv.records) + 1

\* C27 witness: the address , " newline of the second of two records came
\* back from the reader as it was
C27_Witness ==
    /\ csv.pc = "read" /\ Len(csv.records) = 2
    /\ csv.records[2].address = <<Comma, Quote, Newline>>
    /\ AllSpecials(csv.records[2].address)
    /\ Len(csv.rows) = 3 /\ csv.rows[3][6] = <<Comma, Quote, Newline>>

\* What the slots can hold when a read endpoint is called: nothing, or what
\* one or two runs of the scheduled function left
StoredLead(el, ga, fb) ==
    WithTracking(ToBusiness(el, CATEGORIES[1], CITIES[1], 1),
                 [hasGA |-> ga, hasFB |-> fb])

StoredLeadLists ==
    { <<>>,
      <<StoredLead(Element(1, "Acme", "", "acme.com", "", "", ""), TRUE, FALSE)>>,
      <<StoredLead(Element(1, "Acme", "", "acme.com", "", "", ""), TRUE, FALSE),
        StoredLead(Element(3, "", "Bolt", "", "", "bolt.io", ""), TRUE, TRUE)>> }

InitGate ==
    /\ leadsSlot \in {<<>>} \cup {<<l>> : l \in StoredLeadLists}
    /\ historySlot \in
          {<<>>} \cup
          {<<PushHistory(<<>>, HistoryEntry(1, CITIES[1], CATEGORIES[1],
                                            l, l, l))>> : l \in StoredLeadLists}
    /\ rotationSlot \in {<<>>, <<Advance(DefaultState)>>}
    /\ clock = 0
    /\ blobFaults = 0
    /\ run = [p \in Procs |-> RunIdle]
    /\ adv = AdvIdle
    /\ cover = CoverIdle
    /\ cli = CliOff
    /\ probe = ProbeIdle
    /\ csv = CsvIdle
    /\ gate \in {[GateIdle EXCEPT !.pc = "request", !.request = rq] :
                    rq \in GateRequests}

NextGate ==
    \/ \E readOk \in BOOLEAN : GetLeads(readOk)
    \/ \E leadsOk \in BOOLEAN, stateOk \in BOOLEAN, historyOk \in BOOLEAN :
          GetStatus(leadsOk, stateOk, historyOk)

SpecGate == InitGate /\ [][NextGate]_vars

\* The request carries the secret: in the password parameter, or, when that
\* is absent or empty, in the x-password header
CarriesSecret ==
    \/ gate.request.query = <<PASSWORD>>
    \/ gate.request.query \in {<<>>, <<"">>} /\ gate.request.header = <<PASSWORD>>

\* C28: the read endpoints disclose lead data only with the shared secret: a
\* request to get-leads or get-status whose password (query parameter, else
\* x-password header) is not the secret gets the 401 answer, which is the
\* same whatever the slots hold, and no slot is read; with the secret the
\* answer is a 200.
C28_ReadNeedsSecret ==
    gate.pc = "answered" =>
        IF CarriesSecret
        THEN gate.response.status = 200 /\ gate.reads # {}
        ELSE /\ gate.response = [status |-> 401, contentType |-> "application/json",
                                 body |-> [error |-> "Unauthorized"]]
             /\ gate.reads = {}

\* C28 witness: two leads are stored; get-status was called with a wrong
\* password parameter and the secret in the header, and answered 401
C28_Witness ==
    /\ gate.pc = "answered" /\ gate.request.endpoint = "get-status"
    /\ gate.request.query = <<"letmein">> /\ gate.request.header = <<PASSWORD>>
    /\ leadsSlot # <<>> /\ Len(leadsSlot[1]) = 2
    /\ gate.response.status = 401 /\ gate.reads = {}

\* The calls of the progress callback so far, in order
ProgressCalls == SelectSeq(cli.events, LAMBDA e : e.type = "progress")

\* The records handed to checkBusinessesForTracking: the selection while the
\* loop runs, and as many as were returned once main has gone on
InputCount ==
    IF cli.pc = "check" THEN Len(cli.businessesToCheck) ELSE Len(cli.results)

\* C29: checkBusinessesForTracking calls the progress callback exactly once
\* per input record, in input order, with completedCount 1, 2, ..., N and
\* totalCount N, for records skipped for having no website too, and returns
\* the same N records in the same order.
C29_ProgressOncePerRecord ==
    /\ Len(ProgressCalls) = Len(cli.results)
    /\ Len(cli.results) <= InputCount
    /\ \A i \in 1..Len(ProgressCalls) :
          /\ ProgressCalls[i].checked = i
          /\ ProgressCalls[i].total = InputCount
          /\ ProgressCalls[i].name = cli.results[i].name
          /\ ~HasWebsite(cli.results[i]) =>
                ProgressCalls[i].status = "skipped (no website)"
    /\ cli.pc = "check" =>
          \A i \in 1..Len(cli.results) :
             [f \in DOMAIN cli.businessesToCheck[i] |-> cli.results[i][f]]
                = cli.businessesToCheck[i]

\* C29 witness: two records were checked, the first skipped for having no
\* website, the second fetched; the callback was called with 1/2 and 2/2
C29_Witness ==
    /\ cli.pc \in {"save", "noLeads"} /\ Len(cli.results) = 2
    /\ ~HasWebsite(cli.results[1]) /\ HasWebsite(cli.results[2])
    /\ Len(ProgressCalls) = 2
    /\ ProgressCalls[1].checked = 1 /\ ProgressCalls[1].total = 2
    /\ ProgressCalls[1].status = "skipped (no website)"
    /\ ProgressCalls[2].checked = 2 /\ ProgressCalls[2].total = 2

DetectDelay == 300

\* One iteration of the detection loop of the scheduled function, in order:
\* the awaited 300 ms timer, then checkWebsiteForTracking, which fetches
\* unless the url is empty
DetectIteration(biz) ==
    IF biz.website = "" THEN <<[type |-> "delay", ms |-> DetectDelay]>>
    ELSE <<[type |-> "delay", ms |-> DetectDelay],
           [type |-> "fetch", url |-> NormalizeUrl(biz.website)],
           [type |-> "response", url |-> NormalizeUrl(biz.website)]>>

\* The whole loop: for (const biz of businesses) { ... }
RECURSIVE DetectEvents(_)
DetectEvents(businesses) ==
    IF businesses = <<>> THEN <<>>
    ELSE DetectIteration(Head(businesses)) \o DetectEvents(Tail(businesses))

\* The events of the detection loop the invocation has run
R_Events ==
    IF R.pc \in {"idle", "search", "detect"} THEN <<>> ELSE DetectEvents(R.businesses)

\* The number of events of one type among the first k
CountType(events, type, k) ==
    Cardinality({i \in 1..k : events[i].type = type})

\* Fetches started and not yet finished after the first k events
InFlight(events, k) ==
    CountType(events, "fetch", k) - CountType(events, "response", k)

\* Strictly sequential and throttled: never two fetches in flight; a fetch
\* comes right after a delay of ms and nothing happens before its response;
\* a delay starts with no fetch in flight and is followed by its fetch
Throttled(events, ms) ==
    /\ \A k \in 0..Len(events) : InFlight(events, k) \in {0, 1}
    /\ \A i \in 1..Len(events) :
          /\ events[i].type = "fetch" =>
                /\ i > 1 /\ events[i - 1] = [type |-> "delay", ms |-> ms]
                /\ i < Len(events) /\ events[i + 1].type = "response"
                /\ events[i + 1].url = events[i].url
          /\ events[i].type = "delay" =>
                /\ InFlight(events, i - 1) = 0
                /\ i < Len(events) /\ events[i + 1].type = "fetch"

\* C30: detection is strictly sequential and throttled: at most one fetch
\* is in flight, every fetch is immediately preceded by its own delay, which
\* starts only after the previous fetch has finished, and a record without a
\* website causes neither a delay nor a fetch (one delay and one fetch per
\* record with a website, none for the others).
C30_SequentialThrottled ==
    /\ Throttled(cli.events, CheckDelay)
    /\ CountType(cli.events, "fetch", Len(cli.events))
          = Cardinality({i \in 1..Len(cli.results) : HasWebsite(cli.results[i])})
    /\ CountType(cli.events, "delay", Len(cli.events))
          = CountType(cli.events, "fetch", Len(cli.events))
    /\ Throttled(R_Events, DetectDelay)
    /\ CountType(R_Events, "fetch", Len(R_Events))
          = IF R_Events = <<>> THEN 0 ELSE Len(R.businesses)

\* C30 witness: the command-line run checked a record without a website
\* and then one with a website: one delay and one fetch, both after the
\* skipped record's callback
C30_Witness ==
    /\ Len(cli.results) = 2 /\ ~HasWebsite(cli.results[1])
    /\ HasWebsite(cli.results[2])
    /\ Len(cli.events) = 5
    /\ cli.events[1].type = "progress" /\ cli.events[2].type = "delay"
    /\ cli.events[3].type = "fetch" /\ cli.events[4].type = "response"

\* The invocation answered success although no lead qualified: the search
\* returned no candidate, or detection qualified none
SoftEmpty == Answered /\ R.response.kind = "ok" /\ R.qualifiedLeads = <<>>

\* C31: a soft-empty run still moves the schedule: when the search returns
\* no candidates, or no candidate qualifies, the run that answers success
\* leaves the content of the 'all-leads' slot unchanged, has prepended a
\* history entry with leadsFound = 0 and has advanced the rotation one step.
C31_SoftEmptyRunMovesSchedule ==
    SoftEmpty =>
        /\ Leads = PreLeads
        /\ historySlot # <<>> /\ Len(historySlot[1]) >= 1
        /\ historySlot[1][1].leadsFound = 0
        /\ historySlot[1][1].timestamp = R.now
        /\ rotationSlot = <<Advance(R.loaded)>>
        /\ R.response.success /\ R.response.newLeads = 0

----------------------------------------------------------------------------
(* Selection of city and category on its own: one invocation loads a       *)
(* persisted rotation state whose indices may lie at or beyond the lengths *)
(* of the tables, as after a full pass or after a table was shortened      *)

PersistedStates ==
    [cityIndex : 0..MaxIndex, categoryIndex : 0..MaxIndex, totalRuns : {MaxIndex}]

InitSelect ==
    \E s \in PersistedStates : StoreWithRotation(<<s>>)

NextSelect == \E readOk \in BOOLEAN : LoadRotation("r1", readOk)

SpecSelect == InitSelect /\ [][NextSelect]_vars

\* The invocation selected its combination from the state it read
Selected == R.pc = "search" /\ R.faults = {}

\* C32: selection self-heals by modulo: for every persisted rotation state,
\* also one whose indices are at or beyond the table lengths, the invocation
\* selects CATEGORIES[categoryIndex mod C] and CITIES[cityIndex mod L], both
\* entries of the tables, so that reading the city's name cannot throw.
C32_SelectionSelfHeals ==
    Selected =>
        /\ R.loaded = rotationSlot[1]
        /\ \E j \in 1..Len(CITIES) :
              /\ j - 1 = R.loaded.cityIndex % Len(CITIES)
              /\ R.city = CITIES[j]
        /\ \E i \in 1..Len(CATEGORIES) :
              /\ i - 1 = R.loaded.categoryIndex % Len(CATEGORIES)
              /\ R.category = CATEGORIES[i]

\* C32 witness: both persisted indices lie beyond their tables and the
\* invocation selected the second city and the second category
C32_Witness ==
    /\ Selected
    /\ R.loaded.cityIndex = Len(CITIES) + 1
    /\ R.loaded.categoryIndex = Len(CATEGORIES) + 1
    /\ R.city = "New York" /\ R.category = "lawyer"

\* The invocation answered success
Succeeded == Answered /\ R.response.kind = "ok"

\* C33: history entries are accurate: the entry a successful run prepended
\* has leadsFound = the number of leads the run appended after cross-run
\* dedup and totalLeads = the length of the 'all-leads' slot after the run;
\* when the entry of the previous successful run is below it, its totalLeads
\* is the previous entry's totalLeads plus its own leadsFound; the response's
\* newLeads and totalLeads carry the same two numbers.
C33_HistoryEntriesAccurate ==
    Succeeded =>
        LET entries == historySlot[1]
            entry == entries[1]
        IN  /\ entry.timestamp = R.now
            /\ entry.leadsFound = Len(R.newLeads)
            /\ entry.totalLeads = Len(Leads)
            /\ Len(entries) >= 2 =>
                  entry.totalLeads = entries[2].totalLeads + entry.leadsFound
            /\ R.response.newLeads = entry.leadsFound
            /\ R.response.totalLeads = entry.totalLeads

----------------------------------------------------------------------------
(* An invocation that the platform kills between two of its slot writes,   *)
(* followed by the next scheduled invocation, which gets the search and    *)
(* detection results the killed one got                                    *)

K == run["r1"]
N == run["r2"]

InitKilled ==
    /\ leadsSlot \in {<<>>} \cup {<<l>> : l \in StoredLeadLists}
    /\ historySlot = <<>>
    /\ rotationSlot \in {<<>>, <<Advance(DefaultState)>>}
    /\ clock = 0
    /\ blobFaults = 0
    /\ run = [p \in Procs |-> RunIdle]
    /\ adv = AdvIdle
    /\ cover = CoverIdle
    /\ cli = CliOff
    /\ probe = ProbeIdle
    /\ csv = CsvIdle
    /\ gate = GateIdle

\* The invocation ends after 'all-leads' was written and before 'rotation'
\* is: its pending awaits never resume
Kill(p) ==
    /\ run[p].pc \in {"readHistory", "writeHistory", "advance"}
    /\ run' = [run EXCEPT ![p] = [@ EXCEPT !.pc = "killed"]]
    /\ UNCHANGED <<leadsSlot, historySlot, rotationSlot, clock, blobFaults, harness>>

\* The search of the next invocation returns what the killed one's returned
SameSearch(p, resp) ==
    /\ resp.kind = "ok"
    /\ SearchOpenStreetMap(resp.elements, K.category, K.city, SearchLimit, K.now)
          = K.businesses
    /\ Search(p, resp)

\* The sites answer the next invocation as they answered the killed one
SameDetect(p, pages) ==
    /\ run[p].pc = "detect"
    /\ Len(pages) = Len(K.businesses)
    /\ ~DetectionThrows(K.businesses, pages)
    /\ QualifiedLeads(K.businesses, pages) = K.qualifiedLeads
    /\ Detect(p, pages)

NextKilled ==
    \/ K.pc \notin {"done", "killed"} /\ Step("r1")
    \/ Kill("r1")
    \/ /\ K.pc = "killed"
       /\ N.pc # "done"
       /\ \/ \E readOk \in BOOLEAN : LoadRotation("r2", readOk)
          \/ \E resp \in SearchResponses : SameSearch("r2", resp)
          \/ \E pages \in [1..Len(N.businesses) -> SitePages] : SameDetect("r2", pages)
          \/ \E readOk \in BOOLEAN : ReadLeads("r2", readOk)
          \/ \E writeOk \in BOOLEAN : WriteLeads("r2", writeOk)
          \/ \E readOk \in BOOLEAN : ReadHistory("r2", readOk)
          \/ \E writeOk \in BOOLEAN : WriteHistory("r2", writeOk)
          \/ \E writeOk \in BOOLEAN : AdvanceRotation("r2", writeOk)
          \/ \E writeOk \in BOOLEAN : Catch("r2", writeOk)

SpecKilled == InitKilled /\ [][NextKilled]_vars

\* No two leads of the list have the same cross-run key
DistinctKeys(leads) ==
    \A i, j \in 1..Len(leads) : CrossRunKey(leads[i]) = CrossRunKey(leads[j]) => i = j

\* C34: slot writes happen in the order leads, history, rotation, so a run
\* killed between writes leaves 'all-leads' written and the rotation cursor
\* where it was; the next run selects the same (category, city) again and,
\* with the same search and detection results, adds no lead to the slot and
\* duplicates none.
C34_KilledRunRepeatsHarmlessly ==
    /\ \A p \in Procs :
          /\ "history" \in run[p].wrote => "leads" \in run[p].wrote
          /\ "rotation" \in run[p].wrote /\ run[p].error \notin {"writeLeads", "writeHistory"} \cup SearchFailures \cup {"detect"}
                => "history" \in run[p].wrote
    /\ K.pc = "killed" /\ N.pc = "idle" =>
          /\ "leads" \in K.wrote
          /\ leadsSlot = <<K.allLeads>>
          /\ rotationSlot = K.pre.rotation
    /\ K.pc = "killed" /\ N.pc # "idle" =>
          /\ N.city = K.city
          /\ N.category = K.category
    /\ K.pc = "killed" /\ "leads" \in N.wrote =>
          /\ N.newLeads = <<>>
          /\ Leads = K.allLeads
          /\ DistinctKeys(Leads)

----------------------------------------------------------------------------
(* Requests to the two read endpoints arriving while scheduled invocations *)
(* run: a request is answered in one step at any point of an invocation    *)

\* The requests tried against the running scraper: each endpoint, with the
\* secret and with another word, in both formats
ReadRequests ==
    {rq \in GateRequests :
        rq.query \in {<<PASSWORD>>, <<"letmein">>} /\ rq.header = <<>>}

\* What the search comes back with while requests arrive
ObservedResponses ==
    { [kind |-> "non200", elements |-> <<>>],
      [kind |-> "ok", elements |-> <<>>],
      [kind |-> "ok", elements |-> <<Element(1, "Acme", "", "acme.com", "", "", "")>>],
      [kind |-> "ok", elements |-> <<Element(1, "Acme", "", "acme.com", "", "", ""),
                                     Element(3, "", "Bolt", "", "", "bolt.io", "")>>] }

\* A request reaches one of the two functions
Arrive(rq) ==
    /\ gate.pc \in {"off", "answered"}
    /\ gate' = [GateIdle EXCEPT !.pc = "request", !.request = rq]
    /\ UNCHANGED <<store, adv, cover, cli, probe, csv>>

\* One step of the scheduled invocation, its blob calls succeeding
ScheduledStep ==
    \/ LoadRotation("r1", TRUE)
    \/ \E resp \in ObservedResponses : Search("r1", resp)
    \/ \E pages \in [1..Len(R.businesses) -> SitePages] : Detect("r1", pages)
    \/ ReadLeads("r1", TRUE)
    \/ WriteLeads("r1", TRUE)
    \/ ReadHistory("r1", TRUE)
    \/ WriteHistory("r1", TRUE)
    \/ AdvanceRotation("r1", TRUE)
    \/ Catch("r1", TRUE)

NextReads ==
    \/ ScheduledStep
    \/ \E rq \in ReadRequests : Arrive(rq)
    \/ \E readOk \in BOOLEAN : GetLeads(readOk)
    \/ \E leadsOk \in BOOLEAN, stateOk \in BOOLEAN, historyOk \in BOOLEAN :
          GetStatus(leadsOk, stateOk, historyOk)

SpecReads == Init /\ [][NextReads]_vars

\* A step of a read endpoint: a request arrives or is answered
ReadStep == gate' # gate

\* What the invocation under way has written is what the slots hold
SlotsAsWritten ==
    /\ "leads" \in R.wrote => leadsSlot = <<R.allLeads>>
    /\ "history" \in R.wrote => historySlot = <<R.history>>
    /\ "rotation" \in R.wrote => rotationSlot = <<R.state>>
    /\ R.pc # "idle" /\ "leads" \notin R.wrote => leadsSlot = R.pre.leads
    /\ R.pc # "idle" /\ "history" \notin R.wrote => historySlot = R.pre.history
    /\ R.pc # "idle" /\ "rotation" \notin R.wrote => rotationSlot = R.pre.rotation

\* C35: the read endpoints are read-only: no request to get-leads or
\* get-status, with or without the secret, in csv or json, changes the leads,
\* rotation or history slot or the invocation under way, so that with any
\* number of reads interleaved the slots hold exactly what the scheduled
\* runs wrote.
C35_ReadsWriteNothing ==
    /\ [][ReadStep => UNCHANGED <<leadsSlot, historySlot, rotationSlot, run>>]_vars
    /\ []SlotsAsWritten

\* C35 witness: get-status answered with the secret between the leads write
\* and the rotation write of the first run: it reports the lead just stored
\* and no completed run
C35_Witness ==
    /\ R.pc = "writeHistory" /\ R.now = 1
    /\ gate.pc = "answered" /\ gate.request.endpoint = "get-status"
    /\ gate.response.status = 200
    /\ gate.response.body.totalLeads = 1
    /\ gate.response.body.totalRuns = 0

====
